---- MODULE Spec2Model ----
(***************************************************************************)
(* A model of the event generation engine of beat_starter_core.py: the     *)
(* genre key normalisation, the root and scale selection, the groove       *)
(* post-processor, the drum, bass and melody generators, and export_midi   *)
(* with the plan it is given.                                              *)
(*                                                                         *)
(* Representation.  A Python str is a sequence of one-character strings.   *)
(* A time or a duration in seconds is an integer number of ticks,          *)
(* TicksPerSecond ticks to the second, so that every grid position of the  *)
(* modelled tempi is exact.  random.random() is a draw in 0..RandDen-1     *)
(* read as draw/RandDen; the shared random source is the variable rng.     *)
(***************************************************************************)
EXTENDS Integers, Sequences, FiniteSets, TLC

VARIABLES
    input,      \* canonicalisation: the genre string given by the caller
    key,        \* canonicalisation: _genre_key(input), once computed
    key2,       \* canonicalisation: _genre_key(key), once computed
    root,       \* canonicalisation: pick_genre_root(key), once computed
    cpc,        \* canonicalisation: position of the caller
    hreq,       \* humanizer call: the arguments other than the events
    hctx,       \* humanizer call: the values fixed before the loop
    hin,        \* humanizer call: the events argument
    humanized,  \* humanizer call: the list humanized, as built so far
    hpc,        \* humanizer call: position in the function
    call,       \* generator call: the function called and its arguments
    seed,       \* generator call: the seed given to random.seed before it
    rng,        \* the state of the shared random source
    pc,         \* generator call: position in the function
    loc,        \* generator call: the locals fixed before the loops
    at_bar,     \* generator call: the bar of the running loop
    events,     \* generator call: the list events
    raw,        \* generator call: the list passed to the humanizer
    ret,        \* generator call: the list returned
    first,      \* the outcome of the first of two calls in a row
    tally,      \* event counts of the drum calls made so far, by energy
    xreq,       \* export: the arguments of export_midi and HAS_MIDI
    xpc,        \* export: position in export_midi
    plan,       \* export: the plan returned by generate_beat_plan
    tracks,     \* export: the lists the generators returned to export_midi
    xlog        \* export: the effects of export_midi so far, in order

cvars == <<input, key, key2, root, cpc>>

hvars == <<hreq, hctx, hin, humanized, hpc>>

gvars == <<call, seed, rng, pc, loc, at_bar, events, raw, ret, first>>

xvars == <<tally, xreq, xpc, plan, tracks, xlog>>

vars == <<cvars, hvars, gvars, xvars>>

\* ------------------------------------------------------------------------
\* Bounds of the model
\* ------------------------------------------------------------------------
MaxStrLen == 3

MaxEvents == 2

MaxBars == 2

MaxSeed == 1

\* ------------------------------------------------------------------------
\* Integer helpers
\* ------------------------------------------------------------------------
Max(a, b) == IF a >= b THEN a ELSE b

Min(a, b) == IF a <= b THEN a ELSE b

Abs(a) == IF a >= 0 THEN a ELSE -a

\* Python's int(): truncation toward zero of the quotient a/b (b > 0).
TruncDiv(a, b) == IF a >= 0 THEN a \div b ELSE -((-a) \div b)

\* ------------------------------------------------------------------------
\* Strings: the string literals of the program and the strings given as
\* genre and mood, each as the sequence of its characters.
\* ------------------------------------------------------------------------
S ==
    [ techno |-> <<"t", "e", "c", "h", "n", "o">>,
      techno_acid |->
          <<"t", "e", "c", "h", "n", "o", "_", "a", "c", "i", "d">>,
      techno_peak |->
          <<"t", "e", "c", "h", "n", "o", "_", "p", "e", "a", "k">>,
      industrial |-> <<"i", "n", "d", "u", "s", "t", "r", "i", "a", "l">>,
      ebm |-> <<"e", "b", "m">>,
      electro |-> <<"e", "l", "e", "c", "t", "r", "o">>,
      trance |-> <<"t", "r", "a", "n", "c", "e">>,
      house |-> <<"h", "o", "u", "s", "e">>,
      tech_house |-> <<"t", "e", "c", "h", "_", "h", "o", "u", "s", "e">>,
      deep_house |-> <<"d", "e", "e", "p", "_", "h", "o", "u", "s", "e">>,
      uk_garage |-> <<"u", "k", "_", "g", "a", "r", "a", "g", "e">>,
      hiphop_boom_bap |->
          <<"h", "i", "p", "h", "o", "p", "_", "b", "o", "o", "m", "_", "b",
            "a", "p">>,
      hiphop_west_coast |->
          <<"h", "i", "p", "h", "o", "p", "_", "w", "e", "s", "t", "_", "c",
            "o", "a", "s", "t">>,
      hiphop_trap |->
          <<"h", "i", "p", "h", "o", "p", "_", "t", "r", "a", "p">>,
      reggaeton_dembow |->
          <<"r", "e", "g", "g", "a", "e", "t", "o", "n", "_", "d", "e", "m",
            "b", "o", "w">>,
      lofi |-> <<"l", "o", "f", "i">>,
      pop |-> <<"p", "o", "p">>,
      rock |-> <<"r", "o", "c", "k">>,
      afrobeat |-> <<"a", "f", "r", "o", "b", "e", "a", "t">>,
      jazz_swing |-> <<"j", "a", "z", "z", "_", "s", "w", "i", "n", "g">>,
      experimental |->
          <<"e", "x", "p", "e", "r", "i", "m", "e", "n", "t", "a", "l">>,
      default |-> <<"d", "e", "f", "a", "u", "l", "t">>,
      drum_and_bass |->
          <<"d", "r", "u", "m", "_", "a", "n", "d", "_", "b", "a", "s", "s">>,
      classic |-> <<"c", "l", "a", "s", "s", "i", "c">>,
      stepper |-> <<"s", "t", "e", "p", "p", "e", "r">>,
      neuro |-> <<"n", "e", "u", "r", "o">>,
      peak |-> <<"p", "e", "a", "k">>,
      acid |-> <<"a", "c", "i", "d">>,
      hiphop |-> <<"h", "i", "p", "h", "o", "p">>,
      boom_bap |-> <<"b", "o", "o", "m", "_", "b", "a", "p">>,
      trap |-> <<"t", "r", "a", "p">>,
      hard |-> <<"h", "a", "r", "d">>,
      dark |-> <<"d", "a", "r", "k">>,
      uplifting |-> <<"u", "p", "l", "i", "f", "t", "i", "n", "g">>,
      hardtechno |-> <<"h", "a", "r", "d", "t", "e", "c", "h", "n", "o">>,
      drum_and_bass_classic |->
          <<"d", "r", "u", "m", "_", "a", "n", "d", "_", "b", "a", "s", "s",
            "_", "c", "l", "a", "s", "s", "i", "c">>,
      drum_and_bass_liquid |->
          <<"d", "r", "u", "m", "_", "a", "n", "d", "_", "b", "a", "s", "s",
            "_", "l", "i", "q", "u", "i", "d">>,
      drum_and_bass_stepper |->
          <<"d", "r", "u", "m", "_", "a", "n", "d", "_", "b", "a", "s", "s",
            "_", "s", "t", "e", "p", "p", "e", "r">>,
      drum_and_bass_neuro |->
          <<"d", "r", "u", "m", "_", "a", "n", "d", "_", "b", "a", "s", "s",
            "_", "n", "e", "u", "r", "o">>,
      hip_hop_trap |->
          <<"h", "i", "p", "_", "h", "o", "p", "_", "t", "r", "a", "p">>,
      totally_unknown_genre |->
          <<"t", "o", "t", "a", "l", "l", "y", "_", "u", "n", "k", "n", "o",
            "w", "n", "_", "g", "e", "n", "r", "e">>,
      neutral |-> <<"n", "e", "u", "t", "r", "a", "l">>,
      Hip_Hop_Trap |->
          <<"H", "i", "p", " ", "H", "o", "p", " ", "T", "r", "a", "p">>,
      Techno_padded |-> <<" ", " ", "T", "e", "c", "h", "n", "o", "\t">>,
      Deep_House |-> <<"D", "e", "e", "p", " ", "H", "o", "u", "s", "e">>,
      Dark_mood |-> <<"D", "a", "r", "k">>,
      dark_uplifting |->
          <<"d", "a", "r", "k", " ", "u", "p", "l", "i", "f", "t", "i", "n",
            "g">> ]


\* The empty str.
EmptyStr == <<>>

\* str.lower() on one character.
LowerChar(c) ==
    LET upper == <<"A", "B", "C", "D", "E", "F", "G", "H", "I", "J", "K", "L", "M",
                   "N", "O", "P", "Q", "R", "S", "T", "U", "V", "W", "X", "Y", "Z">>
        lower == <<"a", "b", "c", "d", "e", "f", "g", "h", "i", "j", "k", "l", "m",
                   "n", "o", "p", "q", "r", "s", "t", "u", "v", "w", "x", "y", "z">>
    IN  IF \E i \in 1..Len(upper) : upper[i] = c
        THEN lower[CHOOSE i \in 1..Len(upper) : upper[i] = c]
        ELSE c

\* str.lower()
Lower(s) == [i \in 1..Len(s) |-> LowerChar(s[i])]

\* str.strip(): drops the leading and the trailing whitespace (of the
\* characters modelled, the space and the tab).
Strip(s) ==
    LET keep == {i \in 1..Len(s) : s[i] \notin {" ", "\t"}}
    IN  IF keep = {} THEN EmptyStr
        ELSE LET lo == CHOOSE i \in keep : \A j \in keep : i <= j
                 hi == CHOOSE i \in keep : \A j \in keep : i >= j
             IN  SubSeq(s, lo, hi)

\* str.replace(" ", "_"): every space, and only the space.
ReplaceSpaces(s) == [i \in 1..Len(s) |-> IF s[i] = " " THEN "_" ELSE s[i]]

\* sub in s
Contains(s, sub) ==
    \E i \in 0..(Len(s) - Len(sub)) :
        \A j \in 1..Len(sub) : s[i + j] = sub[j]

\* _genre_key with str.replace replacing the first space only.
GenreKeyFirstSpaceOnly(genre_input) ==
    LET s == Lower(Strip(genre_input))
        sp == {i \in 1..Len(s) : s[i] = " "}
    IN  IF sp = {} THEN s
        ELSE LET f == CHOOSE i \in sp : \A j \in sp : i <= j
             IN  [i \in 1..Len(s) |-> IF i = f THEN "_" ELSE s[i]]

\* _genre_key(genre_input)
_genre_key(genre_input) == ReplaceSpaces(Lower(Strip(genre_input)))

\* GENRE_ROOTS, in declaration order.
GENRE_ROOTS ==
    << <<S.techno, 36>>, <<S.techno_acid, 36>>, <<S.techno_peak, 36>>,
       <<S.industrial, 40>>, <<S.ebm, 38>>, <<S.electro, 37>>,
       <<S.trance, 48>>, <<S.house, 36>>, <<S.tech_house, 36>>,
       <<S.deep_house, 36>>, <<S.uk_garage, 38>>, <<S.hiphop_boom_bap, 45>>,
       <<S.hiphop_west_coast, 43>>, <<S.hiphop_trap, 40>>,
       <<S.reggaeton_dembow, 46>>, <<S.lofi, 48>>, <<S.pop, 48>>,
       <<S.rock, 40>>, <<S.afrobeat, 48>>, <<S.jazz_swing, 50>>,
       <<S.experimental, 50>>, <<S.default, 36>> >>

\* The keys of GENRE_ROOTS: the table of known genre keys.
KnownKeys == {GENRE_ROOTS[i][1] : i \in 1..Len(GENRE_ROOTS)}

\* dict.get(k, d) on GENRE_ROOTS
RootsGet(k, d) ==
    IF k \in KnownKeys
    THEN GENRE_ROOTS[CHOOSE i \in 1..Len(GENRE_ROOTS) : GENRE_ROOTS[i][1] = k][2]
    ELSE d

\* pick_genre_root(genre_key)
pick_genre_root(genre_key) == RootsGet(genre_key, RootsGet(S.default, -1))

\* ------------------------------------------------------------------------
\* Units
\* ------------------------------------------------------------------------
\* Ticks to the second: a quarter of a microsecond.
TicksPerSecond == 4 * 1000 * 1000

\* random.random() is draw / RandDen with draw in 0..RandDen-1.
RandDen == 1000

\* A swing amount is a fraction of a beat in units of 1/SwingDen.
SwingDen == 10000

\* humanize_intensity is given in tenths; energy_factor is in 1/FactorDen.
IntensityDen == 10

FactorDen == 1000

\* swing_amount=0.06, the default of the humanizer, and swing_amount=0.02,
\* what generate_bass_events passes.
DefaultSwing == 600

BassSwing == 200

\* A time of ms milliseconds, in ticks.
Ms(ms) == ms * (TicksPerSecond \div 1000)

\* 60.0 / bpm, in ticks (bpm > 0).
BeatTicks(bpm) == (60 * TicksPerSecond) \div bpm

\* random.uniform(-range, range) for the draw u.
UniformSym(range, u) == (2 * range * u) \div RandDen - range

\* ------------------------------------------------------------------------
\* Groove: apply_swing_and_humanization
\* ------------------------------------------------------------------------
\* The genre branch of the humanizer (lines 103-121).
GrooveFamily(genre_key) ==
    IF Contains(genre_key, S.drum_and_bass) THEN "drum_and_bass"
    ELSE IF Contains(genre_key, S.hiphop) \/ Contains(genre_key, S.boom_bap)
         THEN "hiphop"
    ELSE IF Contains(genre_key, S.techno) \/ Contains(genre_key, S.industrial)
         THEN "techno"
    ELSE "default"

\* The swing amount of the caller, whatever the genre.
GrooveSwingPlain(genre_key, swing_amount) == swing_amount

\* swing_amount after the genre branch, in 1/SwingDen of a beat.
GrooveSwing(genre_key, swing_amount) ==
    CASE GrooveFamily(genre_key) = "drum_and_bass" -> (swing_amount * 5) \div 10
      [] GrooveFamily(genre_key) = "hiphop" -> (swing_amount * 12) \div 10
      [] GrooveFamily(genre_key) = "techno" -> (swing_amount * 3) \div 10
      [] OTHER -> swing_amount

\* A timing range that is the default 0.005 s for every family.
TimingRangeDefault(genre_key) == Ms(5)

\* timing_humanize_range, in ticks.
TimingRange(genre_key) ==
    CASE GrooveFamily(genre_key) = "drum_and_bass" -> Ms(3)
      [] GrooveFamily(genre_key) = "hiphop" -> Ms(8)
      [] GrooveFamily(genre_key) = "techno" -> Ms(2)
      [] OTHER -> Ms(5)

\* vel_humanize_range, in hundredths.
VelRange(genre_key) ==
    CASE GrooveFamily(genre_key) = "drum_and_bass" -> 3
      [] GrooveFamily(genre_key) = "hiphop" -> 6
      [] GrooveFamily(genre_key) = "techno" -> 2
      [] OTHER -> 4

\* An energy factor that grows with the energy: 1.0 + (energy_norm - 5) * 0.05
\* under the same clamps.
EnergyFactorRising(energy_norm, humanize_intensity) ==
    LET e100 == Max(50, Min(100, 100 + (energy_norm - 5) * 5))
        h10  == Max(2, Min(12, humanize_intensity))
    IN  (e100 * h10 * FactorDen) \div (100 * IntensityDen)

\* energy_factor (lines 124-125), in 1/FactorDen:
\* max(0.5, min(1.0, 1.0 - (energy_norm - 5) * 0.05)) * max(0.2, min(1.2, hi)).
EnergyFactor(energy_norm, humanize_intensity) ==
    LET e100 == Max(50, Min(100, 100 - (energy_norm - 5) * 5))
        h10  == Max(2, Min(12, humanize_intensity))
    IN  (e100 * h10 * FactorDen) \div (100 * IntensityDen)

\* What the loop of the humanizer reads: the values fixed before it.
GrooveCtx(genre_key, energy_norm, swing_amount, humanize_intensity, bpm) ==
    [ swing  |-> GrooveSwing(genre_key, swing_amount),
      trange |-> TimingRange(genre_key),
      vrange |-> VelRange(genre_key),
      ef     |-> EnergyFactor(energy_norm, humanize_intensity),
      spb    |-> BeatTicks(Max(1, bpm)) ]

\* An off-sixteenth test that takes the second sixteenth of the beat only.
IsSecondSixteenth(t, spb) ==
    LET ph == t % spb
    IN  4 * ph >= spb /\ 2 * ph < spb

\* is_off_sixteenth (lines 131-134): the beat phase lies in [0.25, 0.5) or
\* in [0.75, 1.0).
IsOffSixteenth(t, spb) ==
    LET ph == t % spb
    IN  \/ 4 * ph >= spb /\ 2 * ph < spb
        \/ 4 * ph >= 3 * spb

\* swing_shift = swing_amount * seconds_per_beat, in ticks.
SwingShift(ctx) == (ctx.swing * (ctx.spb \div 100)) \div (SwingDen \div 100)

\* int(vel * (1 + vel_variation)) for the draw uv, before the clamp.
ScaledVelocity(vel, ctx, uv) ==
    LET num == ctx.vrange * (uv - RandDen \div 2) * ctx.ef
        den == 100 * (RandDen \div 2) * FactorDen
    IN  IF vel >= 0 THEN vel + (vel * num) \div den
        ELSE -((-vel) + ((-vel) * num) \div den)

\* timing_humanize without the scaling by energy_factor.
TimingHumanizeUnscaled(ctx, ut) == UniformSym(ctx.trange, ut)

\* timing_humanize for the draw ut, in ticks.
TimingHumanize(ctx, ut) == TruncDiv(UniformSym(ctx.trange, ut) * ctx.ef, FactorDen)

\* The loop body without the clamp of the time at zero.
HumanizeEventUnclamped(e, ctx, uv, ut) ==
    LET swung == IF IsOffSixteenth(e[1], ctx.spb) THEN e[1] + SwingShift(ctx) ELSE e[1]
    IN  << swung + TimingHumanize(ctx, ut), e[2],
           Max(1, Min(127, ScaledVelocity(e[3], ctx, uv))), e[4] >>

\* The loop body shortening the duration by what the time moved, so that
\* the end of the note stays.
HumanizeEventKeepEnd(e, ctx, uv, ut) ==
    LET swung == IF IsOffSixteenth(e[1], ctx.spb) THEN e[1] + SwingShift(ctx) ELSE e[1]
        new_vel == Max(1, Min(127, ScaledVelocity(e[3], ctx, uv)))
        new_t == Max(0, swung + TimingHumanize(ctx, ut))
    IN  <<new_t, e[2], new_vel, e[4] - (new_t - e[1])>>

\* The loop body (lines 128-153) on the event e = (t, pitch, vel, dur), with
\* the draw uv for the velocity and the draw ut for the timing.
HumanizeEvent(e, ctx, uv, ut) ==
    LET swung == IF IsOffSixteenth(e[1], ctx.spb) THEN e[1] + SwingShift(ctx) ELSE e[1]
        new_vel == Max(1, Min(127, ScaledVelocity(e[3], ctx, uv)))
        new_t == Max(0, swung + TimingHumanize(ctx, ut))
    IN  <<new_t, e[2], new_vel, e[4]>>

\* ------------------------------------------------------------------------
\* The shared random source
\* ------------------------------------------------------------------------
\* The source after one more draw; the draw is the new state, read as
\* state / RandDen.  A full-period congruential generator stands for the
\* generator of the random module.
Advance(r) == (381 * r + 7) % RandDen

\* random.seed(s): the state the seed s puts the source in.
SeedState(s) == (271 * s + 11) % RandDen

\* draw / RandDen < num / den
Below(u, num, den) == u * den < num * RandDen

\* random.uniform(0, span) for the draw u: span * u / RandDen, the product
\* taken in two parts to stay within 32 bits.
UniformTo(span, u) == (span \div RandDen) * u + ((span % RandDen) * u) \div RandDen

\* random.choice(list) for the draw u.
Choice(list, u) == list[(u * Len(list)) \div RandDen + 1]

\* ------------------------------------------------------------------------
\* velocity_for
\* ------------------------------------------------------------------------
\* A level is given in 1/LevelDen; H(x) is the level x/100.
LevelDen == 2100

H(x) == x * (LevelDen \div 100)

\* velocity_for without the clamp to 25..127.
VelocityForUnclamped(level, base, variation) ==
    TruncDiv(base * LevelDen + variation * (level - LevelDen \div 2), LevelDen)

\* velocity_for(level, base, variation): max(25, min(127, int(base +
\* variation * (level - 0.5)))).
velocity_for(level, base, variation) ==
    Max(25, Min(127, TruncDiv(base * LevelDen + variation * (level - LevelDen \div 2),
                              LevelDen)))

\* velocity_for(level) with the default base and variation.
Vel(level100) == velocity_for(H(level100), 80, 12)

\* ------------------------------------------------------------------------
\* Building an event list while drawing from the random source: acc is the
\* list built so far (ev) and the state of the source (rng).
\* ------------------------------------------------------------------------
\* events.append((t, pitch, vel, dur))
E(acc, t, pitch, vel, dur) == [acc EXCEPT !.ev = Append(@, <<t, pitch, vel, dur>>)]

\* A draw that also depends on what an earlier call left behind.
RndAmbient(acc) == [acc EXCEPT !.rng = Advance(@ + Len(first.ret))]

\* One call of random.random(): the draw is the rng of the result.
Rnd(acc) == [acc EXCEPT !.rng = Advance(@)]

\* if random.random() < num/den: events.append((t, pitch, vel, dur))
Chance(acc, num, den, t, pitch, vel, dur) ==
    LET a == Rnd(acc)
    IN  IF Below(a.rng, num, den) THEN E(a, t, pitch, vel, dur) ELSE a

\* if cond and random.random() < num/den: events.append(...); the draw is
\* made only when cond holds.
ChanceIf(cond, acc, num, den, t, pitch, vel, dur) ==
    IF cond THEN Chance(acc, num, den, t, pitch, vel, dur) ELSE acc

\* if cond: events.append(...)
EIf(cond, acc, t, pitch, vel, dur) ==
    IF cond THEN E(acc, t, pitch, vel, dur) ELSE acc

\* events.extend(list)
EAll(acc, list) == [acc EXCEPT !.ev = @ \o list]

\* seconds_per_beat * num / den
Frac(spb, num, den) == (spb * num) \div den

RECURSIVE Loop(_, _, _, _, _)
\* for i in range(from, to): Body(acc, i, c).  The range is run as its first
\* half followed by its second half, the first half being evaluated before
\* the second is entered.
Loop(Body(_, _, _), acc, from, to, c) ==
    IF from >= to THEN acc
    ELSE IF to = from + 1 THEN Body(acc, from, c)
    ELSE LET mid  == (from + to) \div 2
             left == Loop(Body, acc, from, mid, c)
         IN  IF left.rng >= 0 THEN Loop(Body, left, mid, to, c) ELSE left

\* ------------------------------------------------------------------------
\* generate_drum_events: the genre families
\* ------------------------------------------------------------------------
\* A dispatch on the style options: the boom bap pattern when lofi_vinyl or
\* snare_snap is set, whatever the key.
DrumFamilyVinyl(genre_key) ==
    IF call.lofi_vinyl \/ call.snare_snap THEN "hiphop_boom_bap" ELSE "default"

\* The branch of the genre dispatch (lines 183-748).
DrumFamily(genre_key) ==
    IF Contains(genre_key, S.tech_house) THEN "tech_house"
    ELSE IF Contains(genre_key, S.deep_house) THEN "deep_house"
    ELSE IF Contains(genre_key, S.uk_garage) THEN "uk_garage"
    ELSE IF Contains(genre_key, S.house) THEN "house"
    ELSE IF Contains(genre_key, S.reggaeton_dembow) THEN "reggaeton_dembow"
    ELSE IF Contains(genre_key, S.techno) THEN "techno"
    ELSE IF Contains(genre_key, S.trance) THEN "trance"
    ELSE IF Contains(genre_key, S.industrial) THEN "industrial"
    ELSE IF Contains(genre_key, S.hiphop_boom_bap) THEN "hiphop_boom_bap"
    ELSE IF Contains(genre_key, S.hiphop_west_coast) THEN "hiphop_west_coast"
    ELSE IF Contains(genre_key, S.ebm) \/ Contains(genre_key, S.electro) THEN "ebm"
    ELSE IF Contains(genre_key, S.drum_and_bass) THEN
            IF Contains(genre_key, S.classic) THEN "dnb_classic"
            ELSE IF Contains(genre_key, S.stepper) THEN "dnb_stepper"
            ELSE IF Contains(genre_key, S.neuro) THEN "dnb_neuro"
            ELSE "dnb_liquid"
    ELSE IF Contains(genre_key, S.pop) THEN "pop"
    ELSE IF Contains(genre_key, S.rock) THEN "rock"
    ELSE IF Contains(genre_key, S.afrobeat) THEN "afrobeat"
    ELSE IF Contains(genre_key, S.jazz_swing) THEN "jazz_swing"
    ELSE "default"

\* The body of each family's loop.  c holds what the loop reads: spb
\* (seconds_per_beat), bars, e (energy_norm), the genre key, the style
\* options and, inside a bar, bs (bar_start).

\* Tech house, one beat (lines 185-196).
TechHouseBeat(acc, beat_idx, c) ==
    LET t  == beat_idx * c.spb
        a1 == E(acc, t, 36, velocity_for(H(92), 114, 12), Ms(100))
        a2 == E(a1, t + Frac(c.spb, 1, 2), 46, Vel(78), Ms(120))
        a3 == E(a2, t, 42, Vel(62), Ms(30))
        a4 == EIf(beat_idx % 4 \in {1, 3}, a3, t, 39, Vel(88), Ms(60))
    IN  Chance(a4, 25, 100, t + Frac(c.spb, 1, 4), 49, Vel(55), Ms(50))

\* Deep house, one beat (lines 200-207).
DeepHouseBeat(acc, beat_idx, c) ==
    LET t  == beat_idx * c.spb
        a1 == E(acc, t, 36, velocity_for(H(88), 108, 12), Ms(100))
        a2 == E(a1, t + Frac(c.spb, 1, 2), 46, Vel(70), Ms(100))
        a3 == EIf(beat_idx % 4 \in {1, 3}, a2, t, 39, Vel(78), Ms(60))
    IN  Chance(a3, 15, 100, t + Frac(c.spb, 3, 4), 51, Vel(55), Ms(80))

\* UK garage, one shuffled hat (lines 221-230).
UkGarageHat(acc, s, c) ==
    LET v == IF s % 4 = 2 THEN Vel(72) ELSE IF s % 2 = 0 THEN Vel(60) ELSE Vel(50)
    IN  Chance(acc, 90, 100, c.bs + s * Frac(c.spb, 1, 4), 42, v, Ms(20))

\* UK garage, one bar (lines 211-230).
UkGarageBar(acc, bar, c) ==
    LET bs == bar * 4 * c.spb
        a1 == EAll(acc, << <<bs, 36, Vel(90), Ms(80)>>,
                           <<bs + Frac(c.spb, 5, 2), 36, Vel(90), Ms(80)>>,
                           <<bs + c.spb, 39, Vel(85), Ms(60)>>,
                           <<bs + 3 * c.spb, 39, Vel(85), Ms(60)>> >>)
    IN  Loop(UkGarageHat, a1, 0, 16, [c EXCEPT !.bs = bs])

\* House, one beat (lines 234-244).
HouseBeat(acc, beat_idx, c) ==
    LET t  == beat_idx * c.spb
        a1 == E(acc, t, 36, velocity_for(H(90), 112, 12), Ms(100))
        a2 == E(a1, t, 42, Vel(60), Ms(30))
        a3 == E(a2, t + Frac(c.spb, 1, 2), 46, Vel(75), Ms(120))
    IN  EIf(beat_idx % 4 \in {1, 3}, a3, t, 39, Vel(85), Ms(60))

\* House, one of the small variations (lines 247-249).
HouseVariation(acc, i, c) ==
    LET a == Rnd(acc)
    IN  E(a, UniformTo(4 * c.spb * c.bars, a.rng), 42, Vel(60), Ms(20))

\* Reggaeton dembow, one bar (lines 253-269).
ReggaetonBar(acc, bar, c) ==
    LET bs == bar * 4 * c.spb
        a1 == EAll(acc, << <<bs, 36, velocity_for(H(90), 110, 12), Ms(80)>>,
                           <<bs + Frac(c.spb, 5, 2), 36,
                             velocity_for(H(90), 110, 12), Ms(80)>>,
                           <<bs + Frac(c.spb, 7, 4), 39, Vel(90), Ms(70)>>,
                           <<bs + Frac(c.spb, 7, 2), 39, Vel(90), Ms(70)>> >>)
        a2 == EAll(a1, [k \in 1..8 |->
                          <<bs + (k - 1) * Frac(c.spb, 1, 2), 42, Vel(58), Ms(30)>>])
        a3 == Rnd(a2)
    IN  IF Below(a3.rng, 50, 100)
        THEN EAll(a3, [k \in 1..4 |->
                         <<bs + (2 * k - 1) * Frac(c.spb, 1, 2) + Ms(10), 82,
                           Vel(45), Ms(50)>>])
        ELSE a3

\* Techno, one beat (lines 276-304).
TechnoBeat(acc, beat_idx, c) ==
    LET is_peak == Contains(c.key, S.peak)
        is_acid == Contains(c.key, S.acid)
        t  == beat_idx * c.spb
        a1 == E(acc, t, 36,
                IF is_peak THEN velocity_for(H(97), 116, 12)
                           ELSE velocity_for(H(95), 114, 12), Ms(100))
        a2 == E(a1, t, 42, Vel(50), Ms(20))
        a3 == E(a2, t + Frac(c.spb, 1, 2), 46,
                IF is_peak THEN Vel(82) ELSE Vel(78), Ms(120))
        a4 == IF beat_idx % 4 \in {1, 3}
              THEN IF is_peak /\ c.e >= 5
                   THEN E(a3, t, 39, Vel(78), Ms(50))
                   ELSE Chance(a3, 35, 100, t, 39, Vel(68), Ms(50))
              ELSE a3
        a5 == ChanceIf(beat_idx % 2 = 0, a4, IF is_peak THEN 35 ELSE 25, 100,
                       t + Frac(c.spb, 1, 4), 49, Vel(52), Ms(40))
        a6 == ChanceIf(is_peak, a5, 15, 100,
                       t + Frac(c.spb, 3, 4), 51, Vel(50), Ms(40))
    IN  ChanceIf(is_acid, a6, 50, 100,
                 t + Frac(c.spb, 3, 4) + Frac(c.spb, 1, 8), 42, Vel(58), Ms(15))

\* Trance, one hat of a beat (lines 318-324); c.bs is the time of the beat.
TranceHat(acc, s, c) ==
    LET sixteenth_count == IF c.e < 6 THEN 4 ELSE 8
        st == c.bs + s * (c.spb \div sixteenth_count)
    IN  IF s % 2 = 0
        THEN E(acc, st, 42, velocity_for(H(70) + (c.e * LevelDen) \div 30, 80, 12), Ms(20))
        ELSE Chance(acc, 60, 100, st, 42, Vel(60), Ms(20))

\* Trance, one beat (lines 311-327).
TranceBeat(acc, beat_idx, c) ==
    LET t  == beat_idx * c.spb
        a1 == E(acc, t, 36, velocity_for(H(100), 115, 12), Ms(100))
        a2 == Loop(TranceHat, a1, 0, IF c.e < 6 THEN 4 ELSE 8, [c EXCEPT !.bs = t])
    IN  ChanceIf(beat_idx % 8 = 0, a2, 60, 100,
                 t + Frac(c.spb, 1, 2), 39, Vel(90), Ms(60))

\* Industrial, one beat (lines 330-341); density is (10 + e) / 20.
IndustrialBeat(acc, beat_idx, c) ==
    LET t  == beat_idx * c.spb
        a1 == E(acc, t, 36, velocity_for(H(95), 120, 12), Ms(120))
        a2 == Chance(a1, 10 + c.e, 80, t + Frac(c.spb, 1, 4), 36, Vel(70), Ms(70))
        g  == Rnd(a2)
        gt == Rnd(g)
        gc == Rnd(gt)
        a3 == IF Below(g.rng, 30 + 3 * c.e, 100)
              THEN E(gc, t + UniformTo(c.spb, gt.rng), Choice(<<47, 48, 49, 51>>, gc.rng),
                     Vel(80), Ms(50))
              ELSE g
    IN  ChanceIf(beat_idx % 2 = 1, a3, 10 + c.e, 25,
                 t + Frac(c.spb, 1, 2), 38, Vel(95), Ms(80))

\* Boom bap, one backbeat (lines 351-363); c.rim is rim_only_bar.
BoomBapSnare(acc, k, c) ==
    LET t_sn == c.bs + (2 * k + 1) * c.spb + (IF c.e <= 6 THEN Ms(10) ELSE Ms(5))
        a1 == IF c.rim
              THEN E(acc, t_sn, 37, Vel(70), Ms(60))
              ELSE Chance(E(acc, t_sn, 38, velocity_for(H(95), 118, 12), Ms(80)),
                          40, 100, t_sn, 39, Vel(70), Ms(60))
    IN  ChanceIf(~c.rim, a1, 60, 100,
                 t_sn - Frac(c.spb, 1, 8), 38, velocity_for(H(45), 85, 12), Ms(30))

\* Boom bap, one swung 8th hat (lines 375-389).
BoomBapHat(acc, i, c) ==
    LET t_hat == c.bs + i * Frac(c.spb, 1, 2) + (IF i % 2 = 1 THEN Ms(40) ELSE 0)
        v_hat == IF i \in {1, 5} THEN Vel(68)
                 ELSE IF i % 2 = 0 THEN Vel(60) ELSE Vel(62)
        a1 == E(acc, t_hat, 42, v_hat, Ms(30))
    IN  ChanceIf(i \in {1, 5}, a1, 35, 100,
                 t_hat + Frac(c.spb, 45, 100), 46, Vel(56), Ms(80))

\* Boom bap, one low-energy shaker (lines 392-395).
BoomBapShaker(acc, k, c) ==
    Chance(acc, 60, 100, c.bs + (2 * k + 1) * Frac(c.spb, 1, 2), 82, Vel(40), Ms(50))

\* Boom bap, one vinyl tick (lines 398-401).
BoomBapVinyl(acc, i, c) ==
    LET a1 == Rnd(acc)
        tv == c.bs + i * Frac(c.spb, 1, 4) + UniformSym(Ms(3), a1.rng)
    IN  Chance(a1, 30, 100, tv, 42, velocity_for(H(28), 60, 6), Ms(10))

\* Boom bap, one bar (lines 346-405).
BoomBapBar(acc, bar, c) ==
    LET bs == bar * 4 * c.spb
        r0 == IF bar % 8 = 4 THEN Rnd(acc) ELSE acc
        rim_only_bar == bar % 8 = 4 /\ Below(r0.rng, 70, 100)
        cb == [c EXCEPT !.bs = bs, !.rim = rim_only_bar]
        a1 == Loop(BoomBapSnare, r0, 0, 2, cb)
        k1 == Rnd(a1)
        k2 == Rnd(k1)
        kick_positions == <<0, 7, 12>>
                          \o (IF Below(k1.rng, 50, 100) THEN <<2>> ELSE <<>>)
                          \o (IF Below(k2.rng, 35, 100) THEN <<10>> ELSE <<>>)
        a2 == EAll(k2, [k \in 1..Len(kick_positions) |->
                          <<bs + Frac(c.spb, kick_positions[k], 4), 36,
                            velocity_for(H(92), 115, 12), Ms(90)>>])
        a3 == Loop(BoomBapHat, a2, 0, 8, cb)
        a4 == IF c.e <= 4 THEN Loop(BoomBapShaker, a3, 0, 4, cb) ELSE a3
        a5 == IF c.lofi_vinyl THEN Loop(BoomBapVinyl, a4, 0, 16, cb) ELSE a4
    IN  Chance(a5, 30, 100, bs + Frac(c.spb, 9, 4), 37, Vel(50), Ms(30))

\* West coast, one backbeat (lines 415-424); c.rim is rim_intro.
WestCoastSnare(acc, k, c) ==
    LET t_sn == c.bs + (2 * k + 1) * c.spb + Ms(8)
    IN  IF c.rim /\ k = 0
        THEN E(acc, t_sn, 37, Vel(75), Ms(60))
        ELSE LET a1 == Chance(acc, 60, 100, t_sn - Ms(12), 39, Vel(55), Ms(60))
                 a2 == E(a1, t_sn, 39, velocity_for(H(92), 115, 12), Ms(80))
             IN  E(a2, t_sn, 38, velocity_for(H(75), 105, 12), Ms(60))

\* West coast, one 8th hat (lines 436-442).
WestCoastHat(acc, i, c) ==
    LET t_hat == c.bs + i * Frac(c.spb, 1, 2) + (IF i % 2 = 1 THEN Ms(30) ELSE 0)
        a1 == Rnd(E(acc, t_hat, 42, Vel(58), Ms(30)))
    IN  EIf(Below(a1.rng, 20, 100) /\ i \in {1, 5}, a1,
            t_hat + Frac(c.spb, 1, 2), 46, Vel(50), Ms(60))

\* West coast, one offbeat shaker (lines 445-448).
WestCoastShaker(acc, k, c) ==
    Chance(acc, 50, 100, c.bs + (2 * k + 1) * Frac(c.spb, 1, 2), 82, Vel(45), Ms(50))

\* West coast, one bar (lines 410-448).
WestCoastBar(acc, bar, c) ==
    LET bs == bar * 4 * c.spb
        r0 == IF bar % 8 = 0 THEN Rnd(acc) ELSE acc
        rim_intro == bar % 8 = 0 /\ Below(r0.rng, 50, 100)
        cb == [c EXCEPT !.bs = bs, !.rim = rim_intro]
        a1 == Loop(WestCoastSnare, r0, 0, 2, cb)
        k1 == Rnd(a1)
        k2 == Rnd(k1)
        kick_positions == <<0, 12>>
                          \o (IF Below(k1.rng, 45, 100) THEN <<7>> ELSE <<>>)
                          \o (IF Below(k2.rng, 30, 100) THEN <<15>> ELSE <<>>)
        a2 == EAll(k2, [k \in 1..Len(kick_positions) |->
                          <<bs + Frac(c.spb, kick_positions[k], 4), 36,
                            velocity_for(H(95), 118, 12), Ms(100)>>])
        a3 == Loop(WestCoastHat, a2, 0, 8, cb)
    IN  Loop(WestCoastShaker, a3, 0, 4, cb)

\* EBM and electro, one beat (lines 451-458).
EbmBeat(acc, beat_idx, c) ==
    LET t  == beat_idx * c.spb
        a1 == E(acc, t, 36, Vel(95), Ms(90))
        a2 == EIf(beat_idx % 2 = 0, a1, t + Frac(c.spb, 1, 4), 42, Vel(60), Ms(20))
    IN  Chance(a2, 10 + c.e, 50, t + Frac(c.spb, 1, 2), 49, Vel(70), Ms(40))

\* Classic drum and bass: kick_steps (lines 468-491).
ClassicKickSteps(break_preset, e) ==
    LET base == IF break_preset = "think" THEN {0, 4, 8, 12}
                ELSE IF break_preset = "tight" THEN {0, 2, 8, 10}
                ELSE {0, 6, 8, 15}
        more == IF e >= 7
                THEN (IF break_preset = "think" THEN {6} ELSE {10})
                ELSE {}
        most == IF e >= 9 THEN {14} ELSE {}
    IN  base \cup more \cup most

\* Classic drum and bass: snare_velocity (line 504).
ClassicSnareVelocity(snare_snap) ==
    IF snare_snap THEN velocity_for(H(98), 120, 12) ELSE velocity_for(H(95), 115, 12)

\* Classic drum and bass, one backbeat with its flam (lines 501-511).
ClassicSnare(acc, k, c) ==
    LET t  == c.bs + (4 + 8 * k) * Frac(c.spb, 1, 4)
        sv == ClassicSnareVelocity(c.snare_snap)
        a1 == E(acc, t, 38, sv, Ms(50))
    IN  ChanceIf(c.snare_snap, a1, 70, 100, t - Ms(10), 38, (sv * 7) \div 10, Ms(20))

\* Classic drum and bass, one ghost snare (lines 514-519).
ClassicGhost(acc, k, c) ==
    LET ghost_s == Max(0, (4 + 8 * k) - 1)
    IN  Chance(acc, 10 + c.e, 20, c.bs + ghost_s * Frac(c.spb, 1, 4), 38,
               velocity_for(H(45), 85, 12), Ms(30))

\* Classic drum and bass: the hat velocity of step s, 0 when the step is
\* skipped (lines 527-558).
ClassicHatVelocity(hat_layout, s) ==
    IF hat_layout = "break"
    THEN (IF s % 4 = 2 THEN Vel(85) ELSE IF s % 4 = 0 THEN Vel(75) ELSE Vel(55))
    ELSE IF hat_layout = "sparse"
    THEN (IF s % 4 = 0 THEN Vel(80) ELSE IF s % 4 = 2 THEN Vel(60) ELSE 0)
    ELSE (IF s % 4 = 0 THEN Vel(80) ELSE IF s % 2 = 0 THEN Vel(70) ELSE Vel(60))

\* Classic drum and bass, one hat step (lines 523-561).
ClassicHat(acc, s, c) ==
    LET v == ClassicHatVelocity(c.hat_layout, s)
    IN  ChanceIf(v # 0, acc, 85 + c.e, 100, c.bs + s * Frac(c.spb, 1, 4), 42, v, Ms(15))

\* Classic drum and bass, one high-energy percussion step (lines 590-593).
ClassicPerc(acc, k, c) ==
    Chance(acc, 30, 100, c.bs + (4 * k + 1) * Frac(c.spb, 1, 4), 44, Vel(50), Ms(40))

\* Classic drum and bass, one bar (lines 465-593).
ClassicBar(acc, bar, c) ==
    LET bs   == bar * 4 * c.spb
        step == Frac(c.spb, 1, 4)
        cb   == [c EXCEPT !.bs = bs]
        ks   == ClassicKickSteps(c.break_preset, c.e)
        kicks == SelectSeq([s \in 1..16 |-> s - 1], LAMBDA s : s \in ks)
        a1 == EAll(acc, [k \in 1..Len(kicks) |->
                           <<bs + kicks[k] * step, 36,
                             velocity_for(H(92), 118, 12), Ms(40)>>])
        a2 == Loop(ClassicSnare, a1, 0, 2, cb)
        a3 == Loop(ClassicGhost, a2, 0, 2, cb)
        a4 == Loop(ClassicHat, a3, 0, 16, cb)
        a5 == IF c.e >= 6 /\ c.hat_layout = "break"
              THEN EAll(a4, [k \in 1..4 |->
                               <<bs + 4 * (k - 1) * step, 43, Vel(40), Ms(100)>>])
              ELSE a4
        f  == IF (bar + 1) % 4 = 0 THEN Rnd(a5) ELSE a5
        a6 == IF (bar + 1) % 4 = 0 /\ Below(f.rng, 80, 100)
              THEN EAll(f, [k \in 1..3 |->
                              <<bs + (12 + k) * step, 38, Vel(80), Ms(30)>>])
              ELSE f
        a7 == EIf(c.e >= 7 /\ bar = 0, a6, bs, 49, Vel(90), Ms(500))
        a8 == EIf(c.e >= 7 /\ bar = 3 /\ c.e >= 8, a7,
                  bs + 15 * step, 57, Vel(70), Ms(200))
    IN  IF c.e >= 8 THEN Loop(ClassicPerc, a8, 0, 4, cb) ELSE a8

\* Stepper, one bar (lines 598-621).
StepperBar(acc, bar, c) ==
    LET bs == bar * 4 * c.spb
        a1 == EAll(acc, << <<bs + c.spb, 38, velocity_for(H(96), 118, 12), Ms(50)>>,
                           <<bs + 3 * c.spb, 38, velocity_for(H(96), 118, 12), Ms(50)>>,
                           <<bs, 36, velocity_for(H(94), 118, 12), Ms(50)>>,
                           <<bs + Frac(c.spb, 7, 4), 36,
                             velocity_for(H(94), 118, 12), Ms(50)>>,
                           <<bs + Frac(c.spb, 13, 4), 36,
                             velocity_for(H(94), 118, 12), Ms(50)>> >>)
        a2 == EAll(a1, [k \in 1..16 |->
                          <<bs + (k - 1) * Frac(c.spb, 1, 4), 42,
                            IF (k - 1) % 4 = 0 THEN Vel(78)
                            ELSE IF (k - 1) % 2 = 0 THEN Vel(68) ELSE Vel(58),
                            Ms(15)>>])
        a3 == Rnd(a2)
        a4 == IF Below(a3.rng, 40, 100)
              THEN EAll(a3, << <<bs + c.spb, 51, Vel(60), Ms(40)>>,
                               <<bs + 3 * c.spb, 51, Vel(60), Ms(40)>> >>)
              ELSE a3
    IN  EIf(bar = 0 /\ c.e >= 7, a4, bs, 49, Vel(90), Ms(400))

\* Neurofunk, one bar (lines 626-640).
NeuroBar(acc, bar, c) ==
    LET bs == bar * 4 * c.spb
        a1 == EAll(acc, << <<bs + c.spb, 38, velocity_for(H(97), 120, 12), Ms(50)>>,
                           <<bs + 3 * c.spb, 38, velocity_for(H(97), 120, 12), Ms(50)>>,
                           <<bs, 36, velocity_for(H(95), 120, 12), Ms(45)>>,
                           <<bs + Frac(c.spb, 9, 4), 36,
                             velocity_for(H(95), 120, 12), Ms(45)>>,
                           <<bs + Frac(c.spb, 7, 2), 36,
                             velocity_for(H(95), 120, 12), Ms(45)>> >>)
        a2 == EAll(a1, [k \in 1..16 |->
                          <<bs + (k - 1) * Frac(c.spb, 1, 4), 42,
                            IF (k - 1) % 4 = 2 THEN Vel(80)
                            ELSE IF (k - 1) % 2 = 0 THEN Vel(70) ELSE Vel(60),
                            Ms(12)>>])
        a3 == IF c.e >= 7 THEN Rnd(a2) ELSE a2
    IN  IF c.e >= 7 /\ Below(a3.rng, 60, 100)
        THEN EAll(a3, [k \in 1..4 |->
                         <<bs + (4 * k - 1) * Frac(c.spb, 1, 4), 44, Vel(55), Ms(30)>>])
        ELSE a3

\* Liquid, one ghost snare (lines 649-651).
LiquidGhost(acc, k, c) ==
    Chance(acc, 60, 100, c.bs + (2 * k + 1) * c.spb - Frac(c.spb, 1, 4), 38,
           velocity_for(H(45), 85, 12), Ms(30))

\* Liquid, one hat (lines 661-665).
LiquidHat(acc, i, c) ==
    Chance(acc, 90, 100, c.bs + i * Frac(c.spb, 1, 4), 42,
           IF i % 4 # 0 THEN Vel(65) ELSE Vel(75), Ms(15))

\* Liquid and general drum and bass, one bar (lines 645-669).
LiquidBar(acc, bar, c) ==
    LET bs == bar * 4 * c.spb
        cb == [c EXCEPT !.bs = bs]
        a1 == EAll(acc, << <<bs + c.spb, 38, velocity_for(H(90), 112, 12), Ms(50)>>,
                           <<bs + 3 * c.spb, 38, velocity_for(H(90), 112, 12), Ms(50)>> >>)
        a2 == Loop(LiquidGhost, a1, 0, 2, cb)
        kick_positions == <<0, 14>>
                          \o (IF c.e >= 6 THEN <<6>> ELSE <<>>)
                          \o (IF c.e >= 8 THEN <<9>> ELSE <<>>)
        a3 == EAll(a2, [k \in 1..Len(kick_positions) |->
                          <<bs + Frac(c.spb, kick_positions[k], 4), 36,
                            velocity_for(H(90), 115, 12), Ms(40)>>])
        a4 == Loop(LiquidHat, a3, 0, 16, cb)
        a5 == Rnd(a4)
    IN  IF Below(a5.rng, 70, 100)
        THEN EAll(a5, << <<bs + c.spb, 51, Vel(60), Ms(50)>>,
                         <<bs + 3 * c.spb, 51, Vel(60), Ms(50)>> >>)
        ELSE a5

\* Drum and bass, one extra ghost hit at high energy (lines 673-675).
DnbGhostHit(acc, i, c) ==
    LET a == Rnd(acc)
    IN  E(a, UniformTo(4 * c.spb * c.bars, a.rng), 38, Vel(40), Ms(20))

\* Pop, one beat (lines 680-688).
PopBeat(acc, beat_idx, c) ==
    LET t  == beat_idx * c.spb
        a1 == IF beat_idx % 2 = 0 THEN E(acc, t, 36, Vel(88), Ms(80))
                                  ELSE E(acc, t, 38, Vel(90), Ms(80))
    IN  EAll(a1, << <<t, 42, Vel(60), Ms(20)>>,
                    <<t + Frac(c.spb, 1, 2), 42, Vel(60), Ms(20)>> >>)

\* Rock, one beat (lines 690-705).
RockBeat(acc, beat_idx, c) ==
    LET t  == beat_idx * c.spb
        total_beats == c.bars * 4
        a1 == IF beat_idx % 2 = 0
              THEN E(acc, t, 36, velocity_for(H(95), 118, 12), Ms(100))
              ELSE E(acc, t, 38, velocity_for(H(92), 116, 12), Ms(90))
        a2 == IF beat_idx < total_beats \div 2
              THEN EAll(a1, << <<t, 42, Vel(62), Ms(30)>>,
                               <<t + Frac(c.spb, 1, 2), 42, Vel(62), Ms(30)>> >>)
              ELSE EAll(a1, << <<t, 51, Vel(60), Ms(50)>>,
                               <<t + Frac(c.spb, 1, 2), 51, Vel(60), Ms(50)>> >>)
    IN  EIf(beat_idx % 8 = 0, a2, t, 49, Vel(90), Ms(500))

\* Afrobeat, one bar (lines 707-719).
AfrobeatBar(acc, bar, c) ==
    LET bs == bar * 4 * c.spb
        a1 == EAll(acc, << <<bs + c.spb, 39, Vel(75), Ms(60)>>,
                           <<bs + 3 * c.spb, 39, Vel(75), Ms(60)>>,
                           <<bs, 36, Vel(88), Ms(80)>>,
                           <<bs + Frac(c.spb, 3, 2), 36, Vel(88), Ms(80)>>,
                           <<bs + Frac(c.spb, 11, 4), 36, Vel(88), Ms(80)>> >>)
    IN  EAll(a1, [k \in 1..8 |->
                    <<bs + (k - 1) * Frac(c.spb, 1, 2)
                         + (IF (k - 1) % 2 = 0 THEN 0 ELSE Ms(10)),
                      IF (k - 1) % 2 = 1 THEN 82 ELSE 42, Vel(55), Ms(40)>>])

\* Jazz swing, one bar (lines 722-737).
JazzSwingBar(acc, bar, c) ==
    LET bs == bar * 4 * c.spb
        ride(beat) == << <<bs + beat * c.spb, 51, Vel(60), Frac(c.spb, 1, 10)>>,
                         <<bs + beat * c.spb + Frac(c.spb, 2, 3), 51, Vel(50),
                           Frac(c.spb, 8, 100)>> >>
        a1 == EAll(acc, ride(0) \o ride(1) \o ride(2) \o ride(3))
        a2 == EAll(a1, << <<bs + c.spb, 42, Vel(65), Ms(40)>>,
                          <<bs + 3 * c.spb, 42, Vel(65), Ms(40)>>,
                          <<bs + Frac(c.spb, 3, 4), 38, velocity_for(H(40), 70, 12), Ms(30)>>,
                          <<bs + Frac(c.spb, 11, 4), 38,
                            velocity_for(H(40), 70, 12), Ms(30)>> >>)
    IN  Chance(a2, 50, 100, bs, 36, velocity_for(H(40), 70, 12), Ms(50))

\* The generic beat with its snare on the first and third beat of the bar.
DefaultBeatSnareOnOne(acc, beat_idx, c) ==
    LET t  == beat_idx * c.spb
        a1 == E(acc, t, 36, Vel(90), Ms(80))
        a2 == EIf(beat_idx % 2 = 0, a1, t, 38, Vel(85), Ms(70))
    IN  EAll(a2, << <<t, 42, Vel(60), Ms(20)>>,
                    <<t + Frac(c.spb, 1, 2), 42, Vel(60), Ms(20)>> >>)

\* The generic 4/4 default, one beat (lines 740-748).
DefaultBeat(acc, beat_idx, c) ==
    LET t  == beat_idx * c.spb
        a1 == E(acc, t, 36, Vel(90), Ms(80))
        a2 == EIf(beat_idx % 2 = 1, a1, t, 38, Vel(85), Ms(70))
    IN  EAll(a2, << <<t, 42, Vel(60), Ms(20)>>,
                    <<t + Frac(c.spb, 1, 2), 42, Vel(60), Ms(20)>> >>)

\* Energy scaling, one high-energy ghost or percussion hit (lines 753-759).
HighEnergyHit(acc, i, c) ==
    LET a == Rnd(acc)
        t == UniformTo(4 * c.spb * c.bars, a.rng)
        b == Rnd(a)
        d == Rnd(b)
    IN  IF Below(b.rng, 80, 100)
        THEN E(b, t, 38, Vel(30), Ms(20))
        ELSE E(d, t, Choice(<<47, 48, 49, 51>>, d.rng), Vel(40), Ms(20))

\* Energy scaling, one hat of the doubled grid (lines 761-764).
HighEnergyHat(acc, beat_idx, c) ==
    Chance(acc, 90, 100, beat_idx * Frac(c.spb, 1, 2), 42, Vel(70), Ms(15))

\* Energy scaling, one medium-energy hit (lines 767-772).
MidEnergyHit(acc, i, c) ==
    LET a == Rnd(acc)
        t == UniformTo(4 * c.spb * c.bars, a.rng)
        b == Rnd(a)
        d == Rnd(b)
    IN  IF Below(b.rng, 60, 100)
        THEN E(b, t, 38, Vel(40), Ms(25))
        ELSE E(d, t, Choice(<<47, 48, 49>>, d.rng), Vel(50), Ms(25))

\* Energy scaling at low energy, the thinning of one event of c.src
\* (line 776).
ThinEvent(acc, i, c) ==
    LET a == Rnd(acc)
    IN  IF Below(a.rng, 70, 100) THEN EAll(a, <<c.src[i + 1]>>) ELSE a

\* Energy scaling at low energy, the spacing pass (lines 778-788).
SpaceEvents(list) ==
    [i \in 1..Len(list) |->
        IF i > 1 /\ list[i][2] = list[i - 1][2]
        THEN <<list[i][1] + Ms(20), list[i][2], list[i][3], list[i][4]>>
        ELSE list[i]]

\* The loop of apply_swing_and_humanization over c.src, drawing from the
\* source (lines 128-153).
HumanizeDrawn(acc, i, c) ==
    LET a == Rnd(acc)
        b == Rnd(a)
    IN  EAll(b, <<HumanizeEvent(c.src[i + 1], c.ctx, a.rng, b.rng)>>)

\* The pattern of one bar of the family: for a family looping over the
\* beats, the four beats of the bar.
DrumBarEvents(acc, family, bar, c) ==
    IF family = "tech_house" THEN Loop(TechHouseBeat, acc, 4 * bar, 4 * bar + 4, c)
    ELSE IF family = "deep_house" THEN Loop(DeepHouseBeat, acc, 4 * bar, 4 * bar + 4, c)
    ELSE IF family = "uk_garage" THEN UkGarageBar(acc, bar, c)
    ELSE IF family = "house" THEN Loop(HouseBeat, acc, 4 * bar, 4 * bar + 4, c)
    ELSE IF family = "reggaeton_dembow" THEN ReggaetonBar(acc, bar, c)
    ELSE IF family = "techno" THEN Loop(TechnoBeat, acc, 4 * bar, 4 * bar + 4, c)
    ELSE IF family = "trance" THEN Loop(TranceBeat, acc, 4 * bar, 4 * bar + 4, c)
    ELSE IF family = "industrial" THEN Loop(IndustrialBeat, acc, 4 * bar, 4 * bar + 4, c)
    ELSE IF family = "hiphop_boom_bap" THEN BoomBapBar(acc, bar, c)
    ELSE IF family = "hiphop_west_coast" THEN WestCoastBar(acc, bar, c)
    ELSE IF family = "ebm" THEN Loop(EbmBeat, acc, 4 * bar, 4 * bar + 4, c)
    ELSE IF family = "dnb_classic" THEN ClassicBar(acc, bar, c)
    ELSE IF family = "dnb_stepper" THEN StepperBar(acc, bar, c)
    ELSE IF family = "dnb_neuro" THEN NeuroBar(acc, bar, c)
    ELSE IF family = "dnb_liquid" THEN LiquidBar(acc, bar, c)
    ELSE IF family = "pop" THEN Loop(PopBeat, acc, 4 * bar, 4 * bar + 4, c)
    ELSE IF family = "rock" THEN Loop(RockBeat, acc, 4 * bar, 4 * bar + 4, c)
    ELSE IF family = "afrobeat" THEN AfrobeatBar(acc, bar, c)
    ELSE IF family = "jazz_swing" THEN JazzSwingBar(acc, bar, c)
    ELSE Loop(DefaultBeat, acc, 4 * bar, 4 * bar + 4, c)

\* What a family appends after its loop (lines 246-249, 307-308, 672-675).
DrumFamilyTail(acc, family, c) ==
    IF family = "house" /\ c.e >= 6 THEN Loop(HouseVariation, acc, 0, c.bars, c)
    ELSE IF family = "techno" /\ c.e >= 7 THEN E(acc, 0, 49, Vel(85), Ms(400))
    ELSE IF family \in {"dnb_classic", "dnb_stepper", "dnb_neuro", "dnb_liquid"}
            /\ c.e >= 8
         THEN Loop(DnbGhostHit, acc, 0, c.bars, c)
    ELSE acc

\* An energy scaling pass whose thinning reaches energy 4.
EnergyScalingThinAtFour(acc, c) ==
    IF c.e >= 8
    THEN Loop(HighEnergyHat,
              Loop(HighEnergyHit, acc, 0, 3 * c.bars, c), 0, c.bars * 4 * 2, c)
    ELSE IF c.e >= 5
    THEN Loop(MidEnergyHit, acc, 0, TruncDiv(3 * c.bars, 2), c)
    ELSE LET thinned == Loop(ThinEvent, [acc EXCEPT !.ev = <<>>], 0, Len(acc.ev),
                             [c EXCEPT !.src = acc.ev])
         IN  [thinned EXCEPT !.ev = SpaceEvents(@)]

\* The energy scaling pass (lines 751-788).
EnergyScaling(acc, c) ==
    IF c.e >= 8
    THEN Loop(HighEnergyHat,
              Loop(HighEnergyHit, acc, 0, 3 * c.bars, c), 0, c.bars * 4 * 2, c)
    ELSE IF c.e >= 5
    THEN Loop(MidEnergyHit, acc, 0, TruncDiv(3 * c.bars, 2), c)
    ELSE IF c.e <= 3
    THEN LET thinned == Loop(ThinEvent, [acc EXCEPT !.ev = <<>>], 0, Len(acc.ev),
                             [c EXCEPT !.src = acc.ev])
         IN  [thinned EXCEPT !.ev = SpaceEvents(@)]
    ELSE acc

\* apply_swing_and_humanization(events, ...) drawing from the source.
Humanize(acc, genre_key, energy_norm, swing_amount, humanize_intensity, bpm, c) ==
    Loop(HumanizeDrawn, [acc EXCEPT !.ev = <<>>], 0, Len(acc.ev),
         [c EXCEPT !.src = acc.ev,
                   !.ctx = GrooveCtx(genre_key, energy_norm, swing_amount,
                                     humanize_intensity, bpm)])

\* list.sort without a key: the list as it stands.
Unsorted(list) == list

\* events.sort(key=lambda x: x[0]): a stable sort by time.
SortByTime(list) ==
    LET ByTime(a, b) == a[1] < b[1]
    IN  SortSeq(list, ByTime)

\* ------------------------------------------------------------------------
\* Scales
\* ------------------------------------------------------------------------
\* SCALES[scale_name]
SCALES(scale_name) ==
    IF scale_name = "major" THEN <<0, 2, 4, 5, 7, 9, 11>>
    ELSE IF scale_name = "phrygian" THEN <<0, 1, 3, 5, 7, 8, 10>>
    ELSE <<0, 2, 3, 5, 7, 8, 10>>

\* intervals[:n]
Take(list, n) == SubSeq(list, 1, Min(n, Len(list)))

\* The scale choice with the uplifting/trance rule tried first.
ScaleNameUpliftingFirst(genre_key, mood) ==
    IF Contains(Lower(mood), S.uplifting) \/ Contains(genre_key, S.trance)
    THEN "major"
    ELSE IF \/ Contains(Lower(mood), S.dark)
            \/ Contains(genre_key, S.industrial)
            \/ Contains(genre_key, S.hard)
    THEN (IF Contains(genre_key, S.industrial) THEN "phrygian" ELSE "aeolian")
    ELSE "minor"

\* The scale choice with a case-sensitive test of the mood.
ScaleNameCaseSensitive(genre_key, mood) ==
    IF \/ Contains(mood, S.dark)
       \/ Contains(genre_key, S.industrial)
       \/ Contains(genre_key, S.hard)
    THEN (IF Contains(genre_key, S.industrial) THEN "phrygian" ELSE "aeolian")
    ELSE IF Contains(mood, S.uplifting) \/ Contains(genre_key, S.trance)
    THEN "major"
    ELSE "minor"

\* generate_bass_events: scale_name (lines 815-820).
BassScaleName(genre_key, mood) ==
    IF \/ Contains(Lower(mood), S.dark)
       \/ Contains(genre_key, S.industrial)
       \/ Contains(genre_key, S.hard)
    THEN (IF Contains(genre_key, S.industrial) THEN "phrygian" ELSE "aeolian")
    ELSE IF Contains(Lower(mood), S.uplifting) \/ Contains(genre_key, S.trance)
    THEN "major"
    ELSE "minor"

\* generate_melody_events: scale_name (lines 937-942).
MelodyScaleName(genre_key, mood) ==
    IF \/ Contains(Lower(mood), S.dark)
       \/ Contains(genre_key, S.industrial)
       \/ Contains(genre_key, S.hard)
    THEN (IF Contains(genre_key, S.industrial) THEN "phrygian" ELSE "aeolian")
    ELSE IF Contains(Lower(mood), S.uplifting) \/ Contains(genre_key, S.trance)
    THEN "major"
    ELSE "minor"

\* ------------------------------------------------------------------------
\* generate_bass_events
\* ------------------------------------------------------------------------
\* The branch of the kick pattern (lines 841-864).
BassKickFamily(genre_key) ==
    IF Contains(genre_key, S.techno) THEN "techno"
    ELSE IF Contains(genre_key, S.hiphop_boom_bap) THEN "hiphop_boom_bap"
    ELSE IF Contains(genre_key, S.hiphop_west_coast) THEN "hiphop_west_coast"
    ELSE IF Contains(genre_key, S.hiphop) \/ Contains(genre_key, S.trap) THEN "hiphop"
    ELSE IF Contains(genre_key, S.drum_and_bass) THEN "drum_and_bass"
    ELSE "default"

\* notes_pool (lines 823-830): the variation tones are added on a draw
\* below 0.3.  acc.ev is the pool.
BassNotesPool(acc, groot, scale_name) ==
    LET a == Rnd(acc)
        base == <<groot, groot + 7, groot + 12>>
    IN  [a EXCEPT !.ev =
            IF Below(a.rng, 30, 100)
            THEN base \o (IF scale_name = "major" THEN <<groot + 3, groot + 9>>
                                                  ELSE <<groot + 3, groot + 8>>)
            ELSE base]

\* The kick times of one bar (lines 838-864), appended to acc.ev, in
\* quarters of a beat from the bar start.
BassKickBar(acc, bar, c) ==
    LET bs  == bar * 4 * c.spb
        fam == BassKickFamily(c.key)
        at(pos) == [k \in 1..Len(pos) |-> bs + Frac(c.spb, pos[k], 4)]
    IN  IF fam = "techno" THEN EAll(acc, at(<<0, 4, 8, 12>>))
        ELSE IF fam = "hiphop_boom_bap" THEN EAll(acc, at(<<0, 7, 12>>))
        ELSE IF fam = "hiphop_west_coast"
        THEN EAll(acc, at(<<0, 12>> \o (IF c.e >= 6 THEN <<7, 15>> ELSE <<7>>)))
        ELSE IF fam = "hiphop"
        THEN LET a1 == EAll(acc, at(<<0, 8>>))
                 a2 == IF Contains(c.key, S.trap) THEN Rnd(a1) ELSE a1
             IN  IF Contains(c.key, S.trap) /\ Below(a2.rng, 40, 100)
                 THEN EAll(a2, at(<<10>>))
                 ELSE a2
        ELSE IF fam = "drum_and_bass" THEN EAll(acc, at(<<0, 6, 10, 14>>))
        ELSE EAll(acc, at(<<0, 8>>))

\* note_weights[:len(notes_pool)] (line 873), in thousandths.
BassNoteWeights(n) == Take(<<700, 200, 100>> \o [k \in 1..Max(0, n - 3) |-> 25], n)

RECURSIVE SumTo(_, _)
\* The cumulative weight of the first k entries.
SumTo(weights, k) == IF k = 0 THEN 0 ELSE SumTo(weights, k - 1) + weights[k]

\* random.choices(pool, weights=weights)[0] for the draw u: the entry at
\* bisect(cum_weights, u * total, 0, n - 1).
Choices(pool, weights, u) ==
    LET n == Len(pool)
        total == SumTo(weights, n)
        below == {k \in 1..(n - 1) : SumTo(weights, k) * RandDen <= u * total}
    IN  pool[Cardinality(below) + 1]

\* dur (lines 877-888).
BassDuration(genre_key, e, spb) ==
    IF genre_key \in {S.techno, S.hardtechno}
    THEN (IF e > 7 THEN Frac(spb, 25, 100) ELSE Frac(spb, 50, 100))
    ELSE IF Contains(genre_key, S.hiphop_boom_bap)
    THEN (IF e >= 6 THEN Frac(spb, 40, 100) ELSE Frac(spb, 55, 100))
    ELSE IF Contains(genre_key, S.hiphop_west_coast)
    THEN (IF e <= 7 THEN spb ELSE Frac(spb, 80, 100))
    ELSE IF Contains(genre_key, S.hiphop) THEN Frac(spb, 75, 100)
    ELSE (IF e > 6 THEN Frac(spb, 50, 100) ELSE spb)

\* vel (lines 891-893).
BassVelocity(genre_key, e) ==
    velocity_for(H(80), IF Contains(genre_key, S.techno) THEN 75 ELSE 85,
                 IF e > 7 THEN 15 ELSE 10)

\* bass_offset (line 869) for the draw u: random.uniform(-0.02, 0.01).
BassOffset(u) == (Ms(30) * u) \div RandDen - Ms(20)

\* The bass note of one kick time c.src[i + 1] (lines 867-899).
BassNote(acc, i, c) ==
    LET a1 == IF c.e > 5 THEN Rnd(acc) ELSE acc
        bass_offset == IF c.e > 5 THEN BassOffset(a1.rng) ELSE -Ms(10)
        t == c.src[i + 1] + bass_offset
        a2 == Rnd(a1)
        chosen == Choices(c.pool, BassNoteWeights(Len(c.pool)), a2.rng)
        a3 == Rnd(a2)
        pitch == IF Below(a3.rng, c.e, 20) THEN chosen + 12 ELSE chosen
    IN  E(a3, t, pitch, BassVelocity(c.key, c.e), BassDuration(c.key, c.e, c.spb))

\* One note of a 16th fill (lines 907-911).
BassFillNote(acc, i, c) ==
    LET a == Rnd(acc)
        pitch == IF Len(a.ev) > 0 THEN a.ev[Len(a.ev)][2] ELSE c.groot + 12
    IN  IF Below(a.rng, 60, 100)
        THEN E(a, c.bs + i * Frac(c.spb, 1, 4), pitch, Vel(60), Frac(c.spb, 1, 8))
        ELSE a

\* The fill of one bar (lines 903-911).
BassFillBar(acc, bar, c) ==
    LET a == Rnd(acc)
    IN  IF Below(a.rng, 30, 100)
        THEN Loop(BassFillNote, a, 0, 4, [c EXCEPT !.bs = bar * 4 * c.spb])
        ELSE a

\* ------------------------------------------------------------------------
\* generate_melody_events
\* ------------------------------------------------------------------------
\* energy_norm >= k for energy_norm = (energy - 1) / 9.0 (line 934).
MelodyEnergyAtLeast(energy, k) == energy - 1 >= 9 * k

\* The branch of the genre dispatch (lines 947-1107).
MelodyFamily(genre_key) ==
    IF Contains(genre_key, S.techno) THEN "techno"
    ELSE IF Contains(genre_key, S.trance) \/ Contains(genre_key, S.uplifting)
    THEN "trance"
    ELSE IF Contains(genre_key, S.drum_and_bass)
    THEN (IF Contains(genre_key, S.classic) THEN "dnb_classic" ELSE "dnb_liquid")
    ELSE IF Contains(genre_key, S.hiphop)
    THEN (IF Contains(genre_key, S.boom_bap) THEN "hiphop_boom_bap" ELSE "hiphop")
    ELSE IF Contains(genre_key, S.industrial) \/ Contains(genre_key, S.ebm)
    THEN "industrial"
    ELSE "default"

\* [melody_root + i for i in intervals]
NotesOn(melody_root, intervals) == [k \in 1..Len(intervals) |-> melody_root + intervals[k]]

\* list[i] with Python's index from 0.
At(list, i) == list[i + 1]

\* Techno, one stab of a bar (lines 957-967); k is 0 or 1 for beat 0 or 2.
MelodyTechnoStab(acc, k, c) ==
    LET scale_notes == NotesOn(c.groot + 12, Take(c.intervals, 5))
        t == c.bs + 2 * k * c.spb
        arp_idx == k % 5
        a1 == E(acc, t, At(scale_notes, arp_idx % Len(scale_notes)), Vel(70),
                Frac(c.spb, 25, 100))
        a2 == Rnd(a1)
    IN  EIf(Below(a2.rng, 40, 100) /\ MelodyEnergyAtLeast(c.energy, 5), a2,
            t + Frac(c.spb, 1, 2), At(scale_notes, (arp_idx + 2) % Len(scale_notes)),
            Vel(55), Frac(c.spb, 15, 100))

\* Trance, one step of the motif (lines 980-986).
MelodyTranceStep(acc, i, c) ==
    LET notes == NotesOn(c.groot + 24, c.intervals)
        motif == <<0, 2, 4, 7, 4, 2, 0>>
        t == c.bs + (i * 4 * c.spb) \div Len(motif)
    IN  Chance(acc, 85, 100, t, At(notes, At(motif, i) % Len(notes)),
               velocity_for(H(70) + (i * 20 * (LevelDen \div 100)) \div Len(motif), 80, 12),
               Frac(c.spb, 1, 2))

\* Trance, one bar (lines 978-994).
MelodyTranceBar(acc, bar, c) ==
    LET bs == bar * 4 * c.spb
        a1 == Loop(MelodyTranceStep, acc, 0, 7, [c EXCEPT !.bs = bs])
        counter_notes == NotesOn(c.groot + 24, SubSeq(c.intervals, 3, 5))
    IN  IF MelodyEnergyAtLeast(c.energy, 7) /\ bar % 2 = 0
        THEN EAll(a1, [k \in 1..4 |->
                         <<bs + (k - 1) * c.spb + Frac(c.spb, 1, 4),
                           At(counter_notes, (k - 1) % Len(counter_notes)),
                           Vel(40), Frac(c.spb, 25, 100)>>])
        ELSE a1

\* Classic drum and bass, one chop position (lines 1008-1023).
MelodyClassicChop(acc, k, c) ==
    LET notes == NotesOn(c.groot + 12, Take(c.intervals, 7))
        pos == 2 * k + 1
        a1 == Rnd(acc)
        t  == c.bs + pos * Frac(c.spb, 1, 4)
        a2 == Rnd(a1)
    IN  IF ~Below(a1.rng, 50, 100) THEN a1
        ELSE IF pos % 4 = 1 THEN E(a1, t, At(notes, 0), Vel(70), Frac(c.spb, 15, 100))
        ELSE IF pos % 4 = 3 THEN E(a1, t, At(notes, 2), Vel(60), Frac(c.spb, 15, 100))
        ELSE E(a2, t, Choice(SubSeq(notes, 2, 4), a2.rng), Vel(50), Frac(c.spb, 15, 100))

\* Liquid drum and bass, one 8th (lines 1027-1040).
MelodyLiquidStep(acc, i, c) ==
    LET notes == NotesOn(c.groot + 12, Take(c.intervals, 7))
        t  == c.bs + i * Frac(c.spb, 1, 2)
        a1 == Rnd(acc)
        a2 == Rnd(a1)
    IN  IF ~Below(a1.rng, 60, 100) THEN a1
        ELSE IF i % 4 = 0 THEN E(a1, t, At(notes, 0), Vel(60), Frac(c.spb, 30, 100))
        ELSE IF i % 2 = 0 THEN E(a1, t, At(notes, 4), Vel(60), Frac(c.spb, 30, 100))
        ELSE E(a2, t, Choice(SubSeq(notes, 2, 4), a2.rng), Vel(60), Frac(c.spb, 30, 100))

\* Boom bap, one chord stab (lines 1053-1062); k indexes chop_positions.
MelodyBoomBapChop(acc, k, c) ==
    LET notes == NotesOn(c.groot + 12, Take(c.intervals, 6))
        chop_positions == <<0, 6, 10, 14>>
        pos == At(chop_positions, k)
        t  == c.bs + Frac(c.spb, pos, 4)
        a1 == Rnd(acc)
        tris == SelectSeq(<<0, 2, 4>>, LAMBDA tri : tri < Len(notes))
    IN  IF Below(a1.rng, 70, 100)
        THEN EAll(a1, [j \in 1..Len(tris) |->
                         <<t, At(notes, (pos \div 4 + tris[j]) % Len(notes)),
                           Vel(50), Frac(c.spb, 20, 100)>>])
        ELSE a1

\* Modern hip-hop, one quarter note (lines 1065-1070).
MelodyHipHopStep(acc, i, c) ==
    LET notes == NotesOn(c.groot + 12, Take(c.intervals, 6))
    IN  Chance(acc, 40, 100, c.bs + i * c.spb, At(notes, i % Len(notes)), Vel(60),
               Frac(c.spb, 80, 100))

\* Industrial and EBM, one beat (lines 1082-1093).
MelodyIndustrialStep(acc, i, c) ==
    LET noisy_intervals == Take(c.intervals, 4)
                           \o <<c.intervals[1] + 1, c.intervals[3] + 1>>
        notes == NotesOn(c.groot + 12, noisy_intervals)
        t  == c.bs + i * c.spb
        a1 == Rnd(acc)
        a2 == Rnd(a1)
        a3 == IF Below(a1.rng, 60, 100)
              THEN E(a2, t, Choice(notes, a2.rng), Vel(80), Frac(c.spb, 15, 100))
              ELSE a1
        n1 == Rnd(a3)
        n2 == Rnd(n1)
    IN  IF MelodyEnergyAtLeast(c.energy, 7)
        THEN E(n2, t + UniformSym(Ms(50), n1.rng), Choice(notes, n2.rng), Vel(40),
               Frac(c.spb, 10, 100))
        ELSE a3

\* The default melody, one quarter note (lines 1103-1107).
MelodyDefaultStep(acc, i, c) ==
    LET notes == NotesOn(c.groot + 12, Take(c.intervals, 5))
    IN  Chance(acc, 70, 100, c.bs + i * c.spb, At(notes, i % Len(notes)), Vel(60),
               Frac(c.spb, 80, 100))

\* The melody of one bar of the family.
MelodyBarEvents(acc, family, bar, c) ==
    LET cb == [c EXCEPT !.bs = bar * 4 * c.spb]
    IN  IF family = "techno" THEN Loop(MelodyTechnoStab, acc, 0, 2, cb)
        ELSE IF family = "trance" THEN MelodyTranceBar(acc, bar, c)
        ELSE IF family = "dnb_classic" THEN Loop(MelodyClassicChop, acc, 0, 8, cb)
        ELSE IF family = "dnb_liquid" THEN Loop(MelodyLiquidStep, acc, 0, 8, cb)
        ELSE IF family = "hiphop_boom_bap" THEN Loop(MelodyBoomBapChop, acc, 0, 4, cb)
        ELSE IF family = "hiphop" THEN Loop(MelodyHipHopStep, acc, 0, 4, cb)
        ELSE IF family = "industrial" THEN Loop(MelodyIndustrialStep, acc, 0, 4, cb)
        ELSE Loop(MelodyDefaultStep, acc, 0, 4, cb)

\* ------------------------------------------------------------------------
\* The parts of the state a specification leaves unused
\* ------------------------------------------------------------------------
\* What a variable holds while no call uses it.
Unset ==
    [ str   |-> <<"?">>,
      ctx   |-> [swing |-> 0, trange |-> 0, vrange |-> 0, ef |-> 0, spb |-> 1],
      req   |-> [genre_key |-> <<"?">>, energy_norm |-> 0, swing_amount |-> 0,
                 humanize_intensity |-> 0, bpm |-> 0],
      call  |-> [fn |-> "none", genre |-> <<"?">>, bpm |-> 1, energy |-> 0,
                 bars |-> 0, mood |-> <<"?">>, humanize_intensity |-> 0,
                 break_preset |-> "amen", snare_snap |-> FALSE,
                 hat_layout |-> "standard", lofi_vinyl |-> FALSE,
                 swing |-> 0],
      loc   |-> [spb |-> 1, genre_key |-> <<"?">>, energy_norm |-> 0,
                 family |-> "none", root |-> -1, scale_name |-> "none",
                 notes_pool |-> <<>>, kick_times |-> <<>>],
      first |-> [ret |-> <<>>, rng |-> -1, call |-> <<>>],
      tally |-> [runs |-> 0, low |-> 0, high |-> 0],
      xreq  |-> [has_midi |-> TRUE, seed |-> 0, ambient |-> 0, bars |-> 0,
                 include_bass |-> FALSE, include_melody |-> FALSE,
                 genre |-> <<"?">>, bpm |-> 0, mood |-> <<"?">>, energy |-> 0],
      plan  |-> [genre |-> <<"?">>, bpm |-> 0, mood |-> <<"?">>, energy |-> 0,
                 drum_template_8bars |-> 0],
      tracks |-> [drums |-> <<>>, perc |-> <<>>, bass |-> <<>>, melody |-> <<>>] ]

CanonIdle ==
    /\ input = Unset.str
    /\ key = Unset.str
    /\ key2 = Unset.str
    /\ root = -1
    /\ cpc = "idle"

HumanizeIdle ==
    /\ hreq = Unset.req
    /\ hctx = Unset.ctx
    /\ hin = <<>>
    /\ humanized = <<>>
    /\ hpc = "idle"

GeneratorIdle ==
    /\ call = Unset.call
    /\ seed = 0
    /\ rng = 0
    /\ pc = "idle"
    /\ loc = Unset.loc
    /\ at_bar = 0
    /\ events = <<>>
    /\ raw = <<>>
    /\ ret = <<>>
    /\ first = Unset.first

ExportIdle ==
    /\ tally = Unset.tally
    /\ xreq = Unset.xreq
    /\ xpc = "idle"
    /\ plan = Unset.plan
    /\ tracks = Unset.tracks
    /\ xlog = <<>>

\* The lists of at most n elements of the set from.
RECURSIVE ListsUpTo(_, _)
ListsUpTo(from, n) ==
    IF n = 0 THEN {<<>>}
    ELSE LET shorter == ListsUpTo(from, n - 1)
         IN  shorter \cup {Append(l, e) : l \in {x \in shorter : Len(x) = n - 1},
                                          e \in from}


\* ------------------------------------------------------------------------
\* Canonicalisation of a genre string by a caller: _genre_key, then the
\* root lookup, then _genre_key on the key again.
\* ------------------------------------------------------------------------
\* The strings given: every string of at most MaxStrLen characters over an
\* alphabet of whitespace, the underscore and a letter in both cases, every
\* key of GENRE_ROOTS, and strings of several words, padded or off the table.
CanonInputs ==
    ListsUpTo({" ", "\t", "_", "a", "A"}, MaxStrLen)
    \cup KnownKeys
    \cup {S.Hip_Hop_Trap, S.hip_hop_trap, S.totally_unknown_genre,
          S.Techno_padded, S.Deep_House, S.drum_and_bass_classic}

InitCanon ==
    /\ input \in CanonInputs
    /\ key = Unset.str
    /\ key2 = Unset.str
    /\ root = -1
    /\ cpc = "start"
    /\ HumanizeIdle
    /\ GeneratorIdle
    /\ ExportIdle

Canonicalize ==
    /\ cpc = "start"
    /\ key' = _genre_key(input)
    /\ cpc' = "keyed"
    /\ UNCHANGED <<input, key2, root, hvars, gvars, xvars>>

LookupRoot ==
    /\ cpc = "keyed"
    /\ root' = pick_genre_root(key)
    /\ cpc' = "rooted"
    /\ UNCHANGED <<input, key, key2, hvars, gvars, xvars>>

Recanonicalize ==
    /\ cpc = "rooted"
    /\ key2' = _genre_key(key)
    /\ cpc' = "done"
    /\ UNCHANGED <<input, key, root, hvars, gvars, xvars>>

CanonNext == Canonicalize \/ LookupRoot \/ Recanonicalize

SpecCanon == InitCanon /\ [][CanonNext]_vars

\* ------------------------------------------------------------------------
\* A call of apply_swing_and_humanization on its own, one loop iteration
\* per step, every draw of the random source being possible.
\* ------------------------------------------------------------------------
\* The pairs of draws (velocity, timing) that are told apart: the ends of
\* both ranges in every combination, and the middle.
DrawPairs ==
    { <<0, 0>>, <<0, RandDen - 1>>, <<RandDen - 1, 0>>,
      <<RandDen - 1, RandDen - 1>>, <<RandDen \div 2, RandDen \div 2>> }

\* The arguments other than the events: a key of each genre branch, energy
\* below and above 5, humanize_intensity below, inside and at the top of its
\* clamp, swing_amount and bpm at their defaults.
HumanizeRequests ==
    [ genre_key : {S.drum_and_bass_liquid, S.hiphop_trap, S.techno, S.industrial,
                  S.house},
      energy_norm : {3, 10},
      swing_amount : {DefaultSwing},
      humanize_intensity : {1, 6, 12},
      bpm : {120} ]

\* Events on and off the swung sixteenths of a beat of spb ticks, one of
\* them before time zero.
HumanizeEvents(spb) ==
    { <<-Ms(10), 36, 88, spb \div 2>>,
      <<0, 36, 119, Ms(100)>>,
      <<spb \div 4, 49, 80, Ms(40)>>,
      <<spb \div 2, 46, 83, Ms(120)>>,
      <<(7 * spb) \div 8, 42, 1, Ms(15)>>,
      <<spb + spb \div 4 - 1, 38, 127, Ms(50)>> }

InitHumanize ==
    /\ hreq \in HumanizeRequests
    /\ hin \in ListsUpTo(HumanizeEvents(BeatTicks(hreq.bpm)), MaxEvents)
    /\ hctx = Unset.ctx
    /\ humanized = <<>>
    /\ hpc = "call"
    /\ CanonIdle
    /\ GeneratorIdle
    /\ ExportIdle

\* Lines 100-127: the genre branch, energy_factor and seconds_per_beat.
HumanizeEnter ==
    /\ hpc = "call"
    /\ hctx' = GrooveCtx(hreq.genre_key, hreq.energy_norm, hreq.swing_amount,
                         hreq.humanize_intensity, hreq.bpm)
    /\ hpc' = "loop"
    /\ UNCHANGED <<hreq, hin, humanized, cvars, gvars, xvars>>

\* Lines 128-153: one iteration of the loop over the events.
HumanizeStep ==
    /\ hpc = "loop"
    /\ Len(humanized) < Len(hin)
    /\ \E d \in DrawPairs :
          humanized' = Append(humanized,
                              HumanizeEvent(hin[Len(humanized) + 1], hctx, d[1], d[2]))
    /\ UNCHANGED <<hreq, hctx, hin, hpc, cvars, gvars, xvars>>

\* Line 154: return humanized.
HumanizeReturn ==
    /\ hpc = "loop"
    /\ Len(humanized) = Len(hin)
    /\ hpc' = "done"
    /\ UNCHANGED <<hreq, hctx, hin, humanized, cvars, gvars, xvars>>

HumanizeNext == HumanizeEnter \/ HumanizeStep \/ HumanizeReturn

SpecHumanize == InitHumanize /\ [][HumanizeNext]_vars

\* ------------------------------------------------------------------------
\* One call of a generator: generate_drum_events, generate_bass_events or
\* generate_melody_events, drawing from the shared random source.
\* ------------------------------------------------------------------------
\* What the loops of a call read.
LoopCtx ==
    [ spb |-> loc.spb, bars |-> call.bars, e |-> loc.energy_norm,
      energy |-> call.energy, key |-> loc.genre_key,
      break_preset |-> call.break_preset, snare_snap |-> call.snare_snap,
      hat_layout |-> call.hat_layout, lofi_vinyl |-> call.lofi_vinyl,
      bs |-> 0, rim |-> FALSE, src |-> <<>>, ctx |-> Unset.ctx,
      pool |-> loc.notes_pool, groot |-> loc.root,
      intervals |-> SCALES(loc.scale_name) ]

\* The list under construction with the random source.
Acc == [ev |-> events, rng |-> rng]

\* seconds_per_beat = 60.0 / bpm raises ZeroDivisionError for bpm = 0.
Raises == call.bpm = 0

\* Lines 170-180 of generate_drum_events.
DrumEnter ==
    /\ pc = "call"
    /\ call.fn = "drums"
    /\ IF Raises
       THEN /\ pc' = "raised"
            /\ UNCHANGED loc
       ELSE /\ pc' = "pattern"
            /\ loc' = [loc EXCEPT
                         !.spb = BeatTicks(call.bpm),
                         !.genre_key = _genre_key(call.genre),
                         !.energy_norm = Max(1, Min(10, call.energy)),
                         !.family = DrumFamily(_genre_key(call.genre))]
    /\ UNCHANGED <<call, rng, at_bar, events, raw, ret, first, seed, cvars, hvars, xvars>>

\* One bar of the pattern of the genre family (lines 183-748).
DrumBar ==
    /\ pc = "pattern"
    /\ call.fn = "drums"
    /\ at_bar < call.bars
    /\ LET a == DrumBarEvents(Acc, loc.family, at_bar, LoopCtx)
       IN  /\ events' = a.ev
           /\ rng' = a.rng
    /\ at_bar' = at_bar + 1
    /\ UNCHANGED <<call, pc, loc, raw, ret, first, seed, cvars, hvars, xvars>>

\* After the last bar: what the family appends after its loop.
DrumAfterLoop ==
    /\ pc = "pattern"
    /\ call.fn = "drums"
    /\ at_bar >= call.bars
    /\ LET a == DrumFamilyTail(Acc, loc.family, LoopCtx)
       IN  /\ events' = a.ev
           /\ rng' = a.rng
    /\ pc' = "energy"
    /\ UNCHANGED <<call, loc, at_bar, raw, ret, first, seed, cvars, hvars, xvars>>

\* Lines 750-788: the energy scaling pass.
DrumEnergy ==
    /\ pc = "energy"
    /\ LET a == EnergyScaling(Acc, LoopCtx)
       IN  /\ events' = a.ev
           /\ rng' = a.rng
    /\ pc' = "humanize"
    /\ UNCHANGED <<call, loc, at_bar, raw, ret, first, seed, cvars, hvars, xvars>>

\* Line 791: events = apply_swing_and_humanization(events, genre_key,
\* energy_norm, humanize_intensity=humanize_intensity, bpm=bpm), the swing
\* amount being the default of the humanizer.
DrumHumanize ==
    /\ pc = "humanize"
    /\ call.fn = "drums"
    /\ LET a == Humanize(Acc, loc.genre_key, loc.energy_norm, DefaultSwing,
                         call.humanize_intensity, call.bpm, LoopCtx)
       IN  /\ events' = a.ev
           /\ rng' = a.rng
    /\ raw' = events
    /\ pc' = "sort"
    /\ UNCHANGED <<call, loc, at_bar, ret, first, seed, cvars, hvars, xvars>>

\* The final events.sort(key=lambda x: x[0]) and the return of each
\* generator (lines 794-795, 916-917, 1109-1110).
SortAndReturn ==
    /\ pc = "sort"
    /\ events' = SortByTime(events)
    /\ ret' = SortByTime(events)
    /\ pc' = "returned"
    /\ UNCHANGED <<call, rng, loc, at_bar, raw, first, seed, cvars, hvars, xvars>>

\* Lines 806-830 of generate_bass_events: the key, the root, the scale and
\* the note pool.
BassEnter ==
    /\ pc = "call"
    /\ call.fn = "bass"
    /\ IF Raises
       THEN /\ pc' = "raised"
            /\ UNCHANGED <<loc, rng>>
       ELSE LET genre_key == _genre_key(call.genre)
                scale_name == BassScaleName(genre_key, call.mood)
                a == BassNotesPool([ev |-> <<>>, rng |-> rng],
                                   pick_genre_root(genre_key), scale_name)
            IN  /\ pc' = "kicks"
                /\ loc' = [loc EXCEPT
                             !.spb = BeatTicks(call.bpm),
                             !.genre_key = genre_key,
                             !.root = pick_genre_root(genre_key),
                             !.scale_name = scale_name,
                             !.notes_pool = a.ev,
                             !.energy_norm = Max(1, Min(10, call.energy)),
                             !.family = BassKickFamily(genre_key)]
                /\ rng' = a.rng
    /\ UNCHANGED <<call, at_bar, events, raw, ret, first, seed, cvars, hvars, xvars>>

\* Lines 838-864: the kick times of one bar.
BassKicks ==
    /\ pc = "kicks"
    /\ at_bar < call.bars
    /\ LET a == BassKickBar([ev |-> loc.kick_times, rng |-> rng], at_bar, LoopCtx)
       IN  /\ loc' = [loc EXCEPT !.kick_times = a.ev]
           /\ rng' = a.rng
    /\ at_bar' = at_bar + 1
    /\ UNCHANGED <<call, pc, events, raw, ret, first, seed, cvars, hvars, xvars>>

\* Lines 867-899: one bass note for each kick time.
BassNotes ==
    /\ pc = "kicks"
    /\ at_bar >= call.bars
    /\ LET a == Loop(BassNote, Acc, 0, Len(loc.kick_times),
                     [LoopCtx EXCEPT !.src = loc.kick_times])
       IN  /\ events' = a.ev
           /\ rng' = a.rng
    /\ pc' = "fills"
    /\ UNCHANGED <<call, loc, at_bar, raw, ret, first, seed, cvars, hvars, xvars>>

\* The fills at every energy.
BassFillsAtAnyEnergy ==
    /\ pc = "fills"
    /\ LET a == Loop(BassFillBar, Acc, 0, call.bars, LoopCtx)
       IN  /\ events' = a.ev
           /\ rng' = a.rng
    /\ pc' = "humanize"
    /\ UNCHANGED <<call, loc, at_bar, raw, ret, first, seed, cvars, hvars, xvars>>

\* Lines 902-911: the 16th fills at energy 7 and above.
BassFills ==
    /\ pc = "fills"
    /\ LET a == IF loc.energy_norm >= 7
                THEN Loop(BassFillBar, Acc, 0, call.bars, LoopCtx)
                ELSE Acc
       IN  /\ events' = a.ev
           /\ rng' = a.rng
    /\ pc' = "humanize"
    /\ UNCHANGED <<call, loc, at_bar, raw, ret, first, seed, cvars, hvars, xvars>>

\* Line 914: the humanizer with swing_amount=0.02.
BassHumanize ==
    /\ pc = "humanize"
    /\ call.fn = "bass"
    /\ LET a == Humanize(Acc, loc.genre_key, loc.energy_norm, BassSwing,
                         call.humanize_intensity, call.bpm, LoopCtx)
       IN  /\ events' = a.ev
           /\ rng' = a.rng
    /\ raw' = events
    /\ pc' = "sort"
    /\ UNCHANGED <<call, loc, at_bar, ret, first, seed, cvars, hvars, xvars>>

\* Lines 928-945 of generate_melody_events: the key, the root and the scale.
MelodyEnter ==
    /\ pc = "call"
    /\ call.fn = "melody"
    /\ IF Raises
       THEN /\ pc' = "raised"
            /\ UNCHANGED loc
       ELSE LET genre_key == _genre_key(call.genre)
            IN  /\ pc' = "pattern"
                /\ loc' = [loc EXCEPT
                             !.spb = BeatTicks(call.bpm),
                             !.genre_key = genre_key,
                             !.root = pick_genre_root(genre_key),
                             !.scale_name = MelodyScaleName(genre_key, call.mood),
                             !.family = MelodyFamily(genre_key)]
    /\ UNCHANGED <<call, rng, at_bar, events, raw, ret, first, seed, cvars, hvars, xvars>>

\* One bar of the melody of the genre family (lines 947-1107).
MelodyBar ==
    /\ pc = "pattern"
    /\ call.fn = "melody"
    /\ at_bar < call.bars
    /\ LET a == MelodyBarEvents(Acc, loc.family, at_bar, LoopCtx)
       IN  /\ events' = a.ev
           /\ rng' = a.rng
    /\ at_bar' = at_bar + 1
    /\ UNCHANGED <<call, pc, loc, raw, ret, first, seed, cvars, hvars, xvars>>

\* After the last bar the melody is handed to the humanizer as the bass is
\* (swing_amount=0.02) and then goes to its sort.
MelodyAfterLoopHumanized ==
    /\ pc = "pattern"
    /\ call.fn = "melody"
    /\ at_bar >= call.bars
    /\ LET a == Loop(HumanizeDrawn, [ev |-> <<>>, rng |-> rng], 0, Len(events),
                     [LoopCtx EXCEPT !.src = events,
                                     !.ctx = GrooveCtx(loc.genre_key, 5, BassSwing,
                                                       call.humanize_intensity, call.bpm)])
       IN  /\ events' = a.ev
           /\ rng' = a.rng
    /\ raw' = events
    /\ pc' = "sort"
    /\ UNCHANGED <<call, loc, at_bar, ret, first, seed, cvars, hvars, xvars>>

\* After the last bar the melody goes to its sort: no humanizer call.
MelodyAfterLoop ==
    /\ pc = "pattern"
    /\ call.fn = "melody"
    /\ at_bar >= call.bars
    /\ pc' = "sort"
    /\ UNCHANGED <<call, rng, loc, at_bar, events, raw, ret, first, seed, cvars, hvars, xvars>>

\* ------------------------------------------------------------------------
\* The calls made
\* ------------------------------------------------------------------------
\* The genre strings given: every key of GENRE_ROOTS but "default", the
\* composed drum and bass keys of the UI, and strings off the table.
GeneratorGenres ==
    (KnownKeys \ {S.default})
    \cup {S.drum_and_bass_classic, S.drum_and_bass_liquid, S.drum_and_bass_stepper,
          S.drum_and_bass_neuro, S.Hip_Hop_Trap, S.totally_unknown_genre,
          S.hardtechno, S.Deep_House}

Moods == {S.neutral, S.Dark_mood, S.uplifting, S.dark_uplifting}

\* The arguments left at their default values.
Defaults ==
    [ fn |-> "drums", genre |-> S.techno, bpm |-> 120, energy |-> 5, bars |-> 8,
      mood |-> S.neutral, humanize_intensity |-> 6, break_preset |-> "amen",
      snare_snap |-> FALSE, hat_layout |-> "standard", lofi_vinyl |-> FALSE,
      swing |-> DefaultSwing ]

DrumCalls ==
    { [Defaults EXCEPT !.genre = g, !.energy = e, !.bars = b] :
        g \in GeneratorGenres, e \in 1..10, b \in 0..MaxBars }
    \cup
    { [Defaults EXCEPT !.genre = S.drum_and_bass_classic, !.energy = e, !.bars = 1,
                       !.break_preset = bp, !.snare_snap = sn, !.hat_layout = hl] :
        e \in {2, 6, 9}, bp \in {"amen", "think", "tight"}, sn \in BOOLEAN,
        hl \in {"standard", "break", "sparse"} }
    \cup
    { [Defaults EXCEPT !.genre = S.hiphop_boom_bap, !.energy = e, !.bars = 1,
                       !.lofi_vinyl = TRUE, !.humanize_intensity = hi] :
        e \in {3, 8}, hi \in {2, 12} }
    \cup
    { [Defaults EXCEPT !.bpm = bpm, !.energy = 6, !.bars = 1] : bpm \in {0, 128} }

BassCalls ==
    { [Defaults EXCEPT !.fn = "bass", !.genre = g, !.energy = e, !.bars = b,
                       !.mood = m] :
        g \in GeneratorGenres, e \in 1..10, b \in 0..MaxBars, m \in Moods }
    \cup
    { [Defaults EXCEPT !.fn = "bass", !.bpm = bpm, !.energy = 6, !.bars = 1] :
        bpm \in {0, 128} }

MelodyCalls ==
    { [Defaults EXCEPT !.fn = "melody", !.genre = g, !.energy = e, !.bars = b,
                       !.mood = m] :
        g \in GeneratorGenres, e \in 1..10, b \in 0..MaxBars, m \in Moods }
    \cup
    { [Defaults EXCEPT !.fn = "melody", !.bpm = bpm, !.energy = 6, !.bars = 1] :
        bpm \in {0, 128} }

Calls == DrumCalls \cup BassCalls \cup MelodyCalls

\* A generator is called after random.seed(seed).  A bass call is also run
\* from seed 4, under which the variation tones enter the note pool and are
\* drawn.
Init ==
    /\ call \in Calls
    /\ seed \in 0..MaxSeed \cup (IF call.fn = "bass" THEN {4} ELSE {})
    /\ rng = SeedState(seed)
    /\ pc = "call"
    /\ loc = Unset.loc
    /\ at_bar = 0
    /\ events = <<>>
    /\ raw = <<>>
    /\ ret = <<>>
    /\ first = Unset.first
    /\ CanonIdle
    /\ HumanizeIdle
    /\ ExportIdle

Next ==
    \/ DrumEnter
    \/ DrumBar
    \/ DrumAfterLoop
    \/ DrumEnergy
    \/ DrumHumanize
    \/ BassEnter
    \/ BassKicks
    \/ BassNotes
    \/ BassFills
    \/ BassHumanize
    \/ MelodyEnter
    \/ MelodyBar
    \/ MelodyAfterLoop
    \/ SortAndReturn

Spec == Init /\ [][Next]_vars

\* ------------------------------------------------------------------------
\* Two calls of generate_drum_events in a row with the same arguments, the
\* source being seeded with the same seed before each.
\* ------------------------------------------------------------------------
\* generate_drum_events("techno", bpm=128, energy=6, bars=8)
ScenarioCall == [Defaults EXCEPT !.bpm = 128, !.energy = 6, !.bars = 8]

InitTwice ==
    /\ call \in DrumCalls \cup {ScenarioCall}
    /\ seed \in 0..MaxSeed
    /\ rng = SeedState(seed)
    /\ pc = "call"
    /\ loc = Unset.loc
    /\ at_bar = 0
    /\ events = <<>>
    /\ raw = <<>>
    /\ ret = <<>>
    /\ first = Unset.first
    /\ CanonIdle
    /\ HumanizeIdle
    /\ ExportIdle

\* The first call has returned: its outcome is kept, the source is seeded
\* again and the same call is made.
CallAgain ==
    /\ pc = "returned"
    /\ first = Unset.first
    /\ first' = [ret |-> ret, rng |-> rng, call |-> call]
    /\ rng' = SeedState(seed)
    /\ pc' = "call"
    /\ loc' = Unset.loc
    /\ at_bar' = 0
    /\ events' = <<>>
    /\ raw' = <<>>
    /\ ret' = <<>>
    /\ UNCHANGED <<call, seed, cvars, hvars, xvars>>

NextTwice ==
    \/ DrumEnter
    \/ DrumBar
    \/ DrumAfterLoop
    \/ DrumEnergy
    \/ DrumHumanize
    \/ SortAndReturn
    \/ CallAgain

SpecTwice == InitTwice /\ [][NextTwice]_vars

\* ------------------------------------------------------------------------
\* Two calls of generate_drum_events in a row that differ in style options
\* only, the source being seeded with the same seed before each.
\* ------------------------------------------------------------------------
\* Calls with every style option off its default.
OptionCalls ==
    { [Defaults EXCEPT !.genre = g, !.energy = e, !.bars = 1,
                       !.break_preset = bp, !.snare_snap = TRUE,
                       !.hat_layout = hl, !.lofi_vinyl = TRUE] :
        g \in GeneratorGenres, e \in {2, 6, 9},
        bp \in {"think", "tight"}, hl \in {"break", "sparse"} }

InitOptions ==
    /\ call \in OptionCalls
    /\ seed \in 0..MaxSeed
    /\ rng = SeedState(seed)
    /\ pc = "call"
    /\ loc = Unset.loc
    /\ at_bar = 0
    /\ events = <<>>
    /\ raw = <<>>
    /\ ret = <<>>
    /\ first = Unset.first
    /\ CanonIdle
    /\ HumanizeIdle
    /\ ExportIdle

\* The first call has returned: its outcome is kept, the source is seeded
\* again and the call is made with break_preset, snare_snap and hat_layout
\* at their defaults, or with lofi_vinyl at its default.
CallPlain ==
    /\ pc = "returned"
    /\ first = Unset.first
    /\ first' = [ret |-> ret, rng |-> rng, call |-> call]
    /\ \/ call' = [call EXCEPT !.break_preset = Defaults.break_preset,
                               !.snare_snap = Defaults.snare_snap,
                               !.hat_layout = Defaults.hat_layout]
       \/ call' = [call EXCEPT !.lofi_vinyl = Defaults.lofi_vinyl]
    /\ rng' = SeedState(seed)
    /\ pc' = "call"
    /\ loc' = Unset.loc
    /\ at_bar' = 0
    /\ events' = <<>>
    /\ raw' = <<>>
    /\ ret' = <<>>
    /\ UNCHANGED <<seed, cvars, hvars, xvars>>

NextOptions ==
    \/ DrumEnter
    \/ DrumBar
    \/ DrumAfterLoop
    \/ DrumEnergy
    \/ DrumHumanize
    \/ SortAndReturn
    \/ CallPlain

SpecOptions == InitOptions /\ [][NextOptions]_vars

\* ------------------------------------------------------------------------
\* generate_drum_events called at energy 2 and at energy 9 after
\* random.seed(s), for every seed s in turn, the lengths of the returned
\* lists being added up by energy.
\* ------------------------------------------------------------------------
\* The calls tallied: a genre of each kind of pattern, for no bar and for
\* one bar.
TallyCalls ==
    { [Defaults EXCEPT !.genre = g, !.energy = 2, !.bars = b] :
        g \in {S.techno, S.trance, S.house, S.industrial, S.hiphop_boom_bap,
               S.drum_and_bass_classic, S.jazz_swing, S.totally_unknown_genre},
        b \in 0..1 }

InitTally ==
    /\ call \in TallyCalls
    /\ seed = 0
    /\ rng = SeedState(0)
    /\ pc = "call"
    /\ loc = Unset.loc
    /\ at_bar = 0
    /\ events = <<>>
    /\ raw = <<>>
    /\ ret = <<>>
    /\ first = Unset.first
    /\ CanonIdle
    /\ HumanizeIdle
    /\ ExportIdle

\* A call has returned: the length of its list is added to the sum of its
\* energy.  After the call at energy 2 the source is seeded with the same
\* seed and the call is made at energy 9; after that one the next seed is
\* taken, until every state of the source has been the starting one.
NextOutcome ==
    /\ pc = "returned"
    /\ tally' = [ runs |-> tally.runs + 1,
                  low  |-> tally.low + (IF call.energy = 2 THEN Len(ret) ELSE 0),
                  high |-> tally.high + (IF call.energy = 9 THEN Len(ret) ELSE 0) ]
    /\ IF call.energy = 9 /\ seed = RandDen - 1
       THEN /\ pc' = "tallied"
            /\ UNCHANGED <<call, seed, rng, loc, at_bar, events, raw, ret>>
       ELSE /\ pc' = "call"
            /\ call' = [call EXCEPT !.energy = IF call.energy = 2 THEN 9 ELSE 2]
            /\ seed' = IF call.energy = 2 THEN seed ELSE seed + 1
            /\ rng' = SeedState(seed')
            /\ loc' = Unset.loc
            /\ at_bar' = 0
            /\ events' = <<>>
            /\ raw' = <<>>
            /\ ret' = <<>>
    /\ UNCHANGED <<first, cvars, hvars, xreq, xpc, plan, tracks, xlog>>

NextTally ==
    \/ DrumEnter
    \/ DrumBar
    \/ DrumAfterLoop
    \/ DrumEnergy
    \/ DrumHumanize
    \/ SortAndReturn
    \/ NextOutcome

SpecTally == InitTally /\ [][NextTally]_vars

\* ------------------------------------------------------------------------
\* generate_beat_plan followed by export_midi, as the application calls
\* them, and a second export_midi with the same arguments; the generators
\* called directly when export_midi is unavailable.
\* ------------------------------------------------------------------------
\* generate_beat_plan(genre, bpm, mood, energy, bars): the fields of the plan
\* that depend on the arguments, drum_template_8bars by its length.
generate_beat_plan(genre, bpm, mood, energy, bars) ==
    [ genre |-> genre, bpm |-> bpm, mood |-> mood, energy |-> energy,
      drum_template_8bars |-> bars ]

\* eff_bpm = max(40, bpm + int((energy - 5) * 0.6))
EffBpm(bpm, energy) == Max(40, bpm + TruncDiv((energy - 5) * 6, 10))

\* One percussive texture (lines 1162-1163): a time drawn over the bars,
\* then a pitch drawn from 70..74.
PercTexture(acc, i, c) ==
    LET a == Rnd(acc)
        b == Rnd(a)
    IN  E(b, UniformTo(c.bars * 4 * c.spb, a.rng), Choice(<<70, 71, 72, 73, 74>>, b.rng),
          Vel(40), Ms(60))

\* The entry of a generator called with the arguments c.
StartCall(c) ==
    /\ call' = c
    /\ pc' = "call"
    /\ loc' = Unset.loc
    /\ at_bar' = 0
    /\ events' = <<>>
    /\ raw' = <<>>
    /\ ret' = <<>>

\* What the application asks for: the seed 0 stands for no seed, ambient is
\* the state the random source is in when export_midi is called. The drum
\* and the bass generator are asked for tempos of 30, 40 and 120 only, whose
\* beat is a whole number of ticks and exact in binary floating point too.
ExportRequests ==
    [ has_midi : BOOLEAN, seed : 0..MaxSeed, ambient : {0, 500}, bars : {1},
      include_bass : BOOLEAN, include_melody : BOOLEAN,
      genre : {S.techno, S.trance, S.hiphop_boom_bap, S.jazz_swing},
      bpm : {120}, mood : {S.neutral, S.Dark_mood}, energy : {5, 6} ]
    \cup
    [ has_midi : {TRUE}, seed : 0..MaxSeed, ambient : {0, 500}, bars : {1},
      include_bass : BOOLEAN, include_melody : BOOLEAN,
      genre : {S.techno, S.trance, S.hiphop_boom_bap, S.jazz_swing},
      bpm : {30}, mood : {S.neutral}, energy : {5} ]
    \cup
    [ has_midi : {TRUE}, seed : 0..MaxSeed, ambient : {0, 500}, bars : {1},
      include_bass : {FALSE}, include_melody : {TRUE},
      genre : {S.techno, S.trance, S.hiphop_boom_bap, S.jazz_swing},
      bpm : {120}, mood : {S.neutral}, energy : {10} ]

InitExport ==
    /\ xreq \in ExportRequests
    /\ xpc = "start"
    /\ plan = Unset.plan
    /\ tracks = Unset.tracks
    /\ xlog = <<>>
    /\ tally = Unset.tally
    /\ call = Unset.call
    /\ seed = 0
    /\ rng = xreq.ambient
    /\ pc = "idle"
    /\ loc = Unset.loc
    /\ at_bar = 0
    /\ events = <<>>
    /\ raw = <<>>
    /\ ret = <<>>
    /\ first = Unset.first
    /\ CanonIdle
    /\ HumanizeIdle

\* plan = generate_beat_plan(genre=genre, bpm=bpm, mood=mood, energy=energy,
\* bars=8)
MakePlan ==
    /\ xpc = "start"
    /\ plan' = generate_beat_plan(xreq.genre, xreq.bpm, xreq.mood, xreq.energy, 8)
    /\ xpc' = "planned"
    /\ UNCHANGED <<tally, xreq, tracks, xlog, cvars, hvars, gvars>>

\* The entry of export_midi with the random source seeded before HAS_MIDI is
\* looked at.
ExportEnterLateCheck ==
    /\ xpc = "planned"
    /\ rng' = IF xreq.seed # 0 THEN SeedState(xreq.seed) ELSE rng
    /\ xlog' = IF xreq.seed # 0 THEN Append(xlog, "seed") ELSE xlog
    /\ xpc' = IF xreq.has_midi THEN "drums" ELSE "raised"
    /\ UNCHANGED <<tally, xreq, plan, tracks, cvars, hvars>>
    /\ UNCHANGED <<call, seed, pc, loc, at_bar, events, raw, ret, first>>

\* The entry of export_midi without the call of random.seed.
ExportEnterUnseeded ==
    /\ xpc = "planned"
    /\ xpc' = IF xreq.has_midi THEN "drums" ELSE "raised"
    /\ xlog' = IF xreq.has_midi /\ xreq.seed # 0 THEN Append(xlog, "seed") ELSE xlog
    /\ UNCHANGED <<tally, xreq, plan, tracks, cvars, hvars, gvars>>

\* Lines 1121-1149 of export_midi: ImportError when HAS_MIDI is false;
\* otherwise random.seed(int(seed)) when seed is neither None nor 0.
ExportEnter ==
    /\ xpc = "planned"
    /\ IF ~xreq.has_midi
       THEN /\ xpc' = "raised"
            /\ UNCHANGED <<rng, xlog>>
       ELSE /\ xpc' = "drums"
            /\ rng' = IF xreq.seed # 0 THEN SeedState(xreq.seed) ELSE rng
            /\ xlog' = IF xreq.seed # 0 THEN Append(xlog, "seed") ELSE xlog
    /\ UNCHANGED <<tally, xreq, plan, tracks, cvars, hvars>>
    /\ UNCHANGED <<call, seed, pc, loc, at_bar, events, raw, ret, first>>

\* Lines 1151-1155: generate_drum_events(plan["genre"], plan["bpm"],
\* energy=plan["energy"], bars=bars, ...).
ExportDrums ==
    /\ xpc = "drums"
    /\ pc = "idle"
    /\ StartCall([Defaults EXCEPT !.fn = "drums", !.genre = plan.genre,
                                  !.bpm = plan.bpm, !.energy = plan.energy,
                                  !.bars = xreq.bars])
    /\ xlog' = Append(xlog, "drums")
    /\ UNCHANGED <<tally, xreq, xpc, plan, tracks, seed, rng, first, cvars, hvars>>

\* Lines 1156-1163: the drum events become notes; at energy >= 6 the
\* percussive textures are drawn, int(bars * 2) of them.
ExportTextures ==
    /\ xpc = "drums"
    /\ pc = "returned"
    /\ LET a == IF plan.energy >= 6
                THEN Loop(PercTexture, [ev |-> <<>>, rng |-> rng], 0, 2 * xreq.bars,
                          [LoopCtx EXCEPT !.bars = xreq.bars,
                               !.spb = BeatTicks(EffBpm(plan.bpm, plan.energy))])
                ELSE [ev |-> <<>>, rng |-> rng]
       IN  /\ tracks' = [tracks EXCEPT !.drums = ret, !.perc = a.ev]
           /\ rng' = a.rng
    /\ xpc' = "bass"
    /\ pc' = "idle"
    /\ UNCHANGED <<tally, xreq, plan, xlog, cvars, hvars>>
    /\ UNCHANGED <<call, seed, loc, at_bar, events, raw, ret, first>>

\* Lines 1166-1169: with include_bass, generate_bass_events(genre, eff_bpm,
\* energy=energy, bars=bars, mood=mood, ...).
ExportBass ==
    /\ xpc = "bass"
    /\ pc = "idle"
    /\ IF xreq.include_bass
       THEN /\ StartCall([Defaults EXCEPT !.fn = "bass", !.genre = plan.genre,
                                          !.bpm = EffBpm(plan.bpm, plan.energy),
                                          !.energy = plan.energy, !.bars = xreq.bars,
                                          !.mood = plan.mood])
            /\ xlog' = Append(xlog, "bass")
            /\ UNCHANGED xpc
       ELSE /\ xpc' = "melody"
            /\ UNCHANGED <<call, pc, loc, at_bar, events, raw, ret, xlog>>
    /\ UNCHANGED <<tally, xreq, plan, tracks, seed, rng, first, cvars, hvars>>

\* Lines 1174-1177: with include_melody, generate_melody_events(genre,
\* eff_bpm, energy=energy, bars=bars, mood=mood, ...).
ExportMelody ==
    /\ xpc = "melody"
    /\ pc = "idle"
    /\ IF xreq.include_melody
       THEN /\ StartCall([Defaults EXCEPT !.fn = "melody", !.genre = plan.genre,
                                          !.bpm = EffBpm(plan.bpm, plan.energy),
                                          !.energy = plan.energy, !.bars = xreq.bars,
                                          !.mood = plan.mood])
            /\ xlog' = Append(xlog, "melody")
            /\ UNCHANGED xpc
       ELSE /\ xpc' = "write"
            /\ UNCHANGED <<call, pc, loc, at_bar, events, raw, ret, xlog>>
    /\ UNCHANGED <<tally, xreq, plan, tracks, seed, rng, first, cvars, hvars>>

\* Lines 1170-1171 and 1178-1179: the events the bass or the melody
\* generator returned become the notes of its instrument.
ExportCollect ==
    /\ xpc \in {"bass", "melody"}
    /\ pc = "returned"
    /\ tracks' = [tracks EXCEPT ![call.fn] = ret]
    /\ xpc' = IF xpc = "bass" THEN "melody" ELSE "write"
    /\ pc' = "idle"
    /\ UNCHANGED <<tally, xreq, plan, xlog, cvars, hvars>>
    /\ UNCHANGED <<call, seed, rng, loc, at_bar, events, raw, ret, first>>

\* Lines 1182-1183: pm.write(filename); return filename.
ExportWrite ==
    /\ xpc = "write"
    /\ xlog' = Append(xlog, "write")
    /\ xpc' = "done"
    /\ UNCHANGED <<tally, xreq, plan, tracks, cvars, hvars, gvars>>

\* export_midi has returned: its lists are kept and it is called again with
\* the same arguments, the random source being in the state the first call
\* left it in.
ExportAgain ==
    /\ xpc = "done"
    /\ first = Unset.first
    /\ first' = [ret |-> tracks, rng |-> rng, call |-> call]
    /\ tracks' = Unset.tracks
    /\ xlog' = <<>>
    /\ xpc' = "planned"
    /\ UNCHANGED <<tally, xreq, plan, cvars, hvars>>
    /\ UNCHANGED <<call, seed, rng, pc, loc, at_bar, events, raw, ret>>

\* export_midi has raised: a generator is called directly with the values of
\* the plan.
CallDirect ==
    /\ xpc = "raised"
    /\ pc \in {"idle", "returned"}
    /\ \E fn \in {"drums", "bass", "melody"} :
          /\ IF pc = "idle" THEN fn = "drums"
             ELSE IF call.fn = "drums" THEN fn = "bass"
             ELSE call.fn = "bass" /\ fn = "melody"
          /\ StartCall([Defaults EXCEPT !.fn = fn, !.genre = plan.genre,
                                        !.bpm = plan.bpm, !.energy = plan.energy,
                                        !.bars = xreq.bars, !.mood = plan.mood])
    /\ UNCHANGED <<tally, xreq, xpc, plan, tracks, xlog, seed, rng, first, cvars, hvars>>

NextExport ==
    \/ MakePlan
    \/ ExportEnter
    \/ ExportDrums
    \/ ExportTextures
    \/ ExportBass
    \/ ExportMelody
    \/ ExportCollect
    \/ ExportWrite
    \/ ExportAgain
    \/ CallDirect
    \/ DrumEnter
    \/ DrumBar
    \/ DrumAfterLoop
    \/ DrumEnergy
    \/ DrumHumanize
    \/ BassEnter
    \/ BassKicks
    \/ BassNotes
    \/ BassFills
    \/ BassHumanize
    \/ MelodyEnter
    \/ MelodyBar
    \/ MelodyAfterLoop
    \/ SortAndReturn

SpecExport == InitExport /\ [][NextExport]_vars
\* ------------------------------------------------------------------------
\* Two calls of a generator in a row that differ in one argument only, the
\* source being seeded with the same seed before each: an energy outside
\* 1..10 against the clamped energy, or swing=0.0 against swing=0.12.
\* ------------------------------------------------------------------------
\* The genres of the calls that are made twice.
VariedGenres == {S.techno, S.trance, S.industrial, S.hiphop_boom_bap}

\* Energies outside 1..10.
OutOfRange == {0, 12, 64}

InitVaried ==
    /\ \/ call \in { [Defaults EXCEPT !.fn = f, !.genre = g, !.energy = e,
                                      !.bars = 1] :
                       f \in {"drums", "bass", "melody"}, g \in VariedGenres,
                       e \in OutOfRange }
       \/ call \in { [Defaults EXCEPT !.genre = g, !.energy = e, !.bars = 1,
                                      !.swing = 0] :
                       g \in VariedGenres, e \in {3, 8} }
    /\ seed \in 0..MaxSeed
    /\ rng = SeedState(seed)
    /\ pc = "call"
    /\ loc = Unset.loc
    /\ at_bar = 0
    /\ events = <<>>
    /\ raw = <<>>
    /\ ret = <<>>
    /\ first = Unset.first
    /\ CanonIdle
    /\ HumanizeIdle
    /\ ExportIdle

\* The first call has returned: its outcome is kept, the source is seeded
\* again and the call is made with energy min(10, max(1, energy)).
CallClamped ==
    /\ pc = "returned"
    /\ first = Unset.first
    /\ call.energy \notin 1..10
    /\ first' = [ret |-> ret, rng |-> rng, call |-> call]
    /\ call' = [call EXCEPT !.energy = Min(10, Max(1, call.energy))]
    /\ rng' = SeedState(seed)
    /\ pc' = "call"
    /\ loc' = Unset.loc
    /\ at_bar' = 0
    /\ events' = <<>>
    /\ raw' = <<>>
    /\ ret' = <<>>
    /\ UNCHANGED <<seed, cvars, hvars, xvars>>

\* The first call, with swing=0.0, has returned: its outcome is kept, the
\* source is seeded again and the call is made with swing=0.12.
CallSwung ==
    /\ pc = "returned"
    /\ first = Unset.first
    /\ call.swing = 0
    /\ first' = [ret |-> ret, rng |-> rng, call |-> call]
    /\ call' = [call EXCEPT !.swing = 2 * DefaultSwing]
    /\ rng' = SeedState(seed)
    /\ pc' = "call"
    /\ loc' = Unset.loc
    /\ at_bar' = 0
    /\ events' = <<>>
    /\ raw' = <<>>
    /\ ret' = <<>>
    /\ UNCHANGED <<seed, cvars, hvars, xvars>>

NextVaried ==
    \/ DrumEnter
    \/ DrumBar
    \/ DrumAfterLoop
    \/ DrumEnergy
    \/ DrumHumanize
    \/ BassEnter
    \/ BassKicks
    \/ BassNotes
    \/ BassFills
    \/ BassHumanize
    \/ MelodyEnter
    \/ MelodyBar
    \/ MelodyAfterLoop
    \/ SortAndReturn
    \/ CallClamped
    \/ CallSwung

SpecVaried == InitVaried /\ [][NextVaried]_vars


\* ------------------------------------------------------------------------
\* Properties
\* ------------------------------------------------------------------------
\* The list is sorted non-decreasing by time.
SortedByTime(list) == \A i \in 1..(Len(list) - 1) : list[i][1] <= list[i + 1][1]

\* An event is well-formed: pitch 0..127, velocity 1..127, time >= 0,
\* duration > 0.
WellFormed(e) ==
    /\ e[2] \in 0..127
    /\ e[3] \in 1..127
    /\ e[1] >= 0
    /\ e[4] > 0

\* The generator has computed its key, root and scale.
Entered == pc \notin {"idle", "call", "raised"}

\* C1: for bpm >= 1 and bars >= 0, whatever the genre, the mood, the energy
\* and the draws, the list a generator returns is sorted non-decreasing by
\* time.
C1_ReturnedSorted ==
    (pc = "returned" /\ call.bpm >= 1 /\ call.bars >= 0) => SortedByTime(ret)

\* A drum call has returned several events that were out of time order when
\* they left the humanizer's input.
C1_Witness ==
    /\ pc = "returned"
    /\ call.fn = "drums"
    /\ call.bars >= 1
    /\ Len(ret) > 1
    /\ ~SortedByTime(raw)

\* C2: for bpm >= 1, bars >= 1 and energy in 1..10, every event a generator
\* returns is well-formed.
C2_ReturnedWellFormed ==
    (pc = "returned" /\ call.bpm >= 1 /\ call.bars >= 1 /\ call.energy \in 1..10)
        => \A i \in 1..Len(ret) : WellFormed(ret[i])

\* A bass call has returned after handing the humanizer a note placed before
\* time zero.
C2_Witness ==
    /\ pc = "returned"
    /\ call.fn = "bass"
    /\ call.bars >= 1
    /\ call.energy \in 1..10
    /\ \E i \in 1..Len(raw) : raw[i][1] < 0

\* C3: the humanizer is positional: its output is as long as its input and
\* output[i] has the pitch and the duration of input[i].
C3_Positional ==
    /\ Len(humanized) <= Len(hin)
    /\ hpc = "done" => Len(humanized) = Len(hin)
    /\ \A i \in 1..Len(humanized) :
          /\ humanized[i][2] = hin[i][2]
          /\ humanized[i][4] = hin[i][4]

\* The humanizer has returned for two different events and moved the time
\* and the velocity of the first.
C3_Witness ==
    /\ hpc = "done"
    /\ Len(hin) >= 2
    /\ hin[1] # hin[2]
    /\ humanized[1][1] # hin[1][1]
    /\ humanized[1][3] # hin[1][3]

\* The time an event was moved by.
TimeChange(i) == Abs(humanized[i][1] - hin[i][1])

\* swing_amount * seconds_per_beat + timing_jitter_range with the swing
\* amount the caller passed and the timing range of the genre family.
ClaimedTimeBound ==
    (hreq.swing_amount * (hctx.spb \div 100)) \div (SwingDen \div 100)
        + TimingRange(hreq.genre_key)

\* C4 as stated: every event's time changes by at most swing_amount *
\* seconds_per_beat + timing_jitter_range, for the swing amount passed by
\* the caller and the timing range of the genre family.
C4_AsStated ==
    hpc # "call" => \A i \in 1..Len(humanized) : TimeChange(i) <= ClaimedTimeBound

\* C4, amended: an event with time >= 0 changes its time by at most
\* s * seconds_per_beat + timing_jitter_range * energy_factor, s being the
\* swing amount after the multiplier of the genre family.
C4_Amended ==
    hpc # "call" =>
        \A i \in 1..Len(humanized) :
            hin[i][1] >= 0 =>
                TimeChange(i) <= (hctx.swing * (hctx.spb \div 100)) \div (SwingDen \div 100)
                                     + (hctx.trange * hctx.ef) \div FactorDen

\* The humanizer has returned an event of time >= 0 that it moved by more
\* than the bound as stated.
C4_Witness ==
    /\ hpc = "done"
    /\ \E i \in 1..Len(humanized) :
          /\ hin[i][1] >= 0
          /\ TimeChange(i) > ClaimedTimeBound

C6_AsStated == cpc \in {"keyed", "rooted", "done"} => key \in KnownKeys

\* C7: canonicalisation is idempotent.
C7_Idempotent == cpc = "done" => key2 = key

\* The key of an input that was not in canonical form has been
\* canonicalised again.
C7_Witness ==
    /\ cpc = "done"
    /\ input # key
    /\ key # EmptyStr

\* C8 as stated: "Hip Hop Trap" gets the key "hip_hop_trap", and the drum,
\* bass and melody generators and the root lookup treat it as hip-hop/trap,
\* none taking its default.
C8_AsStated ==
    (Entered /\ call.genre = S.Hip_Hop_Trap) =>
        /\ loc.genre_key = S.hip_hop_trap
        /\ loc.family # "default"
        /\ call.fn \in {"bass", "melody"} => loc.root = RootsGet(S.hiphop_trap, -1)

\* C9: for the same genre and mood the bass and the melody generator select
\* the same scale name and the same root from pick_genre_root.
C9_SameScaleAndRoot ==
    (Entered /\ call.fn \in {"bass", "melody"}) =>
        /\ loc.scale_name = BassScaleName(_genre_key(call.genre), call.mood)
        /\ loc.scale_name = MelodyScaleName(_genre_key(call.genre), call.mood)
        /\ loc.root = pick_genre_root(_genre_key(call.genre))

\* The melody generator has selected the major scale on the root of trance
\* for genre "trance" and mood "uplifting".
C9_Witness ==
    /\ Entered
    /\ call.fn = "melody"
    /\ call.genre = S.trance
    /\ call.mood = S.uplifting
    /\ loc.scale_name = "major"
    /\ loc.root = 48

\* The mood contains "dark", whatever the case, or the key contains
\* "industrial" or "hard".
DarkRule ==
    \/ Contains(Lower(call.mood), S.dark)
    \/ Contains(loc.genre_key, S.industrial)
    \/ Contains(loc.genre_key, S.hard)

\* The mood contains "uplifting" or the key contains "trance".
UpliftingRule ==
    \/ Contains(Lower(call.mood), S.uplifting)
    \/ Contains(loc.genre_key, S.trance)

\* C10: the dark/industrial/hard rule gives phrygian for an industrial key
\* and aeolian otherwise; failing it the uplifting/trance rule gives major;
\* failing both the scale is minor.
C10_ScalePrecedence ==
    (Entered /\ call.fn \in {"bass", "melody"}) =>
        /\ (DarkRule /\ Contains(loc.genre_key, S.industrial))
              => loc.scale_name = "phrygian"
        /\ (DarkRule /\ ~Contains(loc.genre_key, S.industrial))
              => loc.scale_name = "aeolian"
        /\ (~DarkRule /\ UpliftingRule) => loc.scale_name = "major"
        /\ (~DarkRule /\ ~UpliftingRule) => loc.scale_name = "minor"

\* The bass generator has selected aeolian for trance with the mood "Dark":
\* both rules apply and the dark rule wins.
C10_Witness ==
    /\ Entered
    /\ call.fn = "bass"
    /\ call.genre = S.trance
    /\ call.mood = S.Dark_mood
    /\ DarkRule
    /\ UpliftingRule
    /\ loc.scale_name = "aeolian"

\* The second of two calls has returned, the first having differed from it
\* in break_preset, snare_snap or hat_layout only.
StyleVariant ==
    /\ pc = "returned"
    /\ first # Unset.first
    /\ first.call # call
    /\ first.call = [call EXCEPT !.break_preset = first.call.break_preset,
                                 !.snare_snap = first.call.snare_snap,
                                 !.hat_layout = first.call.hat_layout]

\* The second of two calls has returned, the first having differed from it
\* in lofi_vinyl only.
VinylVariant ==
    /\ pc = "returned"
    /\ first # Unset.first
    /\ first.call # call
    /\ first.call = [call EXCEPT !.lofi_vinyl = first.call.lofi_vinyl]

\* C11: under the same draws, two drum calls that differ only in
\* break_preset, hat_layout or snare_snap return the same events when the
\* key is outside the drum and bass family, and two calls that differ only
\* in lofi_vinyl return the same events when the key is outside the boom bap
\* family; neither call raises.
C11_OptionsIgnored ==
    /\ (StyleVariant /\ ~Contains(loc.genre_key, S.drum_and_bass))
          => ret = first.ret
    /\ (VinylVariant /\ ~Contains(loc.genre_key, S.hiphop_boom_bap))
          => ret = first.ret
    /\ pc # "raised"

\* A techno call with the style options at their defaults has returned the
\* events of the call made with "think", snare_snap and "break".
C11_Witness ==
    /\ StyleVariant
    /\ first.call.break_preset = "think"
    /\ first.call.snare_snap
    /\ first.call.hat_layout = "break"
    /\ loc.genre_key = S.techno
    /\ Len(ret) > 4
    /\ ret = first.ret

\* The (time, pitch) pairs of the list.
Placed(list) == {<<list[i][1], list[i][2]>> : i \in 1..Len(list)}

\* C12: generate_drum_events does not raise whatever the genre string
\* (bpm >= 1); a key of no rhythmic family takes the generic branch, and the
\* events of the generic branch, before the energy pass and the humanizer,
\* are a kick on every beat, a snare on beats 2 and 4 of each bar and a
\* closed hat on every 8th note, and no other.
C12_GenericDefault ==
    call.fn = "drums" =>
        /\ call.bpm >= 1 => pc # "raised"
        /\ (Entered /\ call.genre \in {S.totally_unknown_genre, S.Hip_Hop_Trap,
                                       S.lofi, S.experimental})
              => loc.family = "default"
        /\ (pc = "energy" /\ loc.family = "default") =>
              /\ Placed(events) =
                    {<<b * loc.spb, 36>> : b \in 0..(4 * call.bars - 1)}
                    \cup {<<b * loc.spb, 38>> :
                            b \in {x \in 0..(4 * call.bars - 1) : x % 4 \in {1, 3}}}
                    \cup {<<(k * loc.spb) \div 2, 42>> : k \in 0..(8 * call.bars - 1)}
              /\ Len(events) = 14 * call.bars

\* The pattern loop of a two-bar call with a genre string off the table has
\* ended in the generic branch.
C12_Witness ==
    /\ call.fn = "drums"
    /\ call.genre = S.totally_unknown_genre
    /\ call.bars = 2
    /\ pc = "energy"
    /\ loc.family = "default"
    /\ Len(events) = 28

\* C13 as stated: a call of generate_drum_events with bars <= 0 or bpm <= 0
\* ends in an error and returns no list.
C13_AsStated ==
    (call.fn = "drums" /\ (call.bars <= 0 \/ call.bpm <= 0)) => pc # "returned"

\* The times at which generate_drum_events, called with the genre, bpm, bars,
\* energy and options of the running call and the random source in state r,
\* places a kick (pitch 36) before the energy pass and the humanizer
\* (lines 183-748).
DrumKickTimes(r) ==
    LET fam == DrumFamily(loc.genre_key)
        a1  == Loop(LAMBDA a, bar, c : DrumBarEvents(a, fam, bar, c),
                    [ev |-> <<>>, rng |-> r], 0, call.bars, LoopCtx)
        a2  == DrumFamilyTail(a1, fam, LoopCtx)
    IN  {a2.ev[i][1] : i \in {k \in 1..Len(a2.ev) : a2.ev[k][2] = 36}}

\* C14 as stated: every time of the kick skeleton of generate_bass_events is
\* a time at which generate_drum_events places a kick for the same genre,
\* bpm, bars and energy, under some outcome of the draws.
C14_AsStated ==
    (call.fn = "bass" /\ pc = "fills") =>
        \A i \in 1..Len(loc.kick_times) :
            \E r \in 0..(RandDen - 1) : loc.kick_times[i] \in DrumKickTimes(r)

\* C15 as stated: every pitch of the list returned by generate_bass_events
\* is, relative to the genre root and modulo 12, an interval of the scale
\* selected for the genre and mood (whether or not the variation tones were
\* added to the note pool).
C15_AsStated ==
    LET scale == SCALES(loc.scale_name)
    IN  (call.fn = "bass" /\ pc = "returned") =>
            \A i \in 1..Len(ret) :
                \E k \in 1..Len(scale) : (ret[i][2] - loc.root) % 12 = scale[k]

\* The returned list of a drum call of the techno family at an energy the
\* low-energy pass (energy <= 3, lines 773-788) does not touch.
TechnoReturned ==
    /\ call.fn = "drums"
    /\ pc = "returned"
    /\ loc.family = "techno"
    /\ loc.energy_norm >= 4

\* The returned list holds an event of the pitch whose time is within d of t.
ReturnedNear(pitch, t, d) ==
    \E i \in 1..Len(ret) : ret[i][2] = pitch /\ Abs(ret[i][1] - t) <= d

\* generate_drum_events("techno", bpm=128, energy=6, bars=1) has returned.
Scenario128 ==
    /\ TechnoReturned
    /\ call.genre = S.techno /\ call.bpm = 128 /\ call.energy = 6 /\ call.bars = 1

C17_AsStated ==
    pc = "tallied" => tally.high > tally.low

\* The pitch and the duration of each event of a list, with its multiplicity
\* left aside.
Notes(list) == {<<list[i][2], list[i][4]>> : i \in 1..Len(list)}

\* C20 as stated: whichever generator has returned, its list was handed to
\* apply_swing_and_humanization before the return: the list returned has
\* the events of the list passed to the humanizer.
C20_AsStated ==
    pc = "returned" => (Len(raw) = Len(ret) /\ Notes(raw) = Notes(ret))

\* C20, amended: the raw lists of the drums and of the bass pass through
\* apply_swing_and_humanization before they are returned; the list of the
\* melody is returned sorted without a pass through the humanizer.
C20_Amended ==
    pc = "returned" =>
        IF call.fn = "melody"
        THEN raw = <<>> /\ ret = SortByTime(events)
        ELSE Len(raw) = Len(ret) /\ Notes(raw) = Notes(ret)

\* generate_melody_events has returned a list of events none of which was
\* passed to the humanizer.
C20_Witness ==
    /\ pc = "returned"
    /\ call.fn = "melody"
    /\ Len(ret) >= 2
    /\ raw = <<>>

\* C18: with HAS_MIDI false export_midi raises before it has seeded the
\* random source, called a generator or written a file: when it has raised
\* nothing is in its log, no list was collected and the source is in the
\* state it was in at the call.  generate_beat_plan has then returned its
\* plan all the same, and no generator called directly raises.
C18_UnavailableExport ==
    ~xreq.has_midi =>
        /\ xpc \in {"idle", "start", "planned", "raised"}
        /\ xlog = <<>>
        /\ tracks = Unset.tracks
        /\ pc = "idle" => rng = xreq.ambient
        /\ xpc \in {"planned", "raised"} =>
               plan = [ genre |-> xreq.genre, bpm |-> xreq.bpm, mood |-> xreq.mood,
                        energy |-> xreq.energy, drum_template_8bars |-> 8 ]
        /\ pc # "raised"

\* export_midi was called with a seed, HAS_MIDI being false, and has raised;
\* generate_melody_events, called directly after the drums and the bass,
\* has returned a list.
C18_Witness ==
    /\ ~xreq.has_midi
    /\ xreq.seed # 0
    /\ xpc = "raised"
    /\ call.fn = "melody"
    /\ pc = "returned"
    /\ Len(ret) > 0

\* The log of a complete run of export_midi with the arguments of the
\* running one.
ExpectedLog ==
    (IF xreq.seed # 0 THEN <<"seed">> ELSE <<>>)
    \o <<"drums">>
    \o (IF xreq.include_bass THEN <<"bass">> ELSE <<>>)
    \o (IF xreq.include_melody THEN <<"melody">> ELSE <<>>)
    \o <<"write">>

\* C19: a run of export_midi seeds the random source at most once, before
\* its first generator call, and calls the generators in the order drums,
\* bass (if included), melody (if included): its log is a prefix of the log
\* of a complete run.  A second run with the same arguments and a seed other
\* than 0 ends with the drum, bass and melody lists of the first.
C19_SeededOnceInOrder ==
    /\ Len(xlog) <= Len(ExpectedLog)
    /\ xlog = SubSeq(ExpectedLog, 1, Len(xlog))
    /\ (xpc = "done" /\ first # Unset.first /\ xreq.seed # 0) =>
           /\ tracks.drums = first.ret.drums
           /\ tracks.bass = first.ret.bass
           /\ tracks.melody = first.ret.melody

\* The second run of a seeded export_midi with bass and melody has ended
\* from another state of the source than the first run started from.
C19_Witness ==
    /\ xpc = "done"
    /\ first # Unset.first
    /\ xreq.seed # 0
    /\ first.rng # xreq.ambient
    /\ Len(tracks.drums) > 0 /\ Len(tracks.bass) > 0 /\ Len(tracks.melody) > 0
    /\ xlog = <<"seed", "drums", "bass", "melody", "write">>

\* The time of the event t before the jitter, as the swing rule has it: t is
\* moved later by swing_amount * seconds_per_beat when four times its phase
\* in the beat lies in [1, 2) or in [3, 4), and is left alone otherwise.
SwungAsRuled(t) ==
    LET quarters == (4 * (t % hctx.spb)) \div hctx.spb
    IN  IF quarters \in {1, 3} THEN t + (hctx.swing * hctx.spb) \div SwingDen ELSE t

\* C21: each event the humanizer has appended has the time the swing rule
\* gives its input event, moved by the timing jitter of one of the draws and
\* kept at or above zero.
C21_SwingOnOffSixteenths ==
    hpc # "call" =>
        \A i \in 1..Len(humanized) :
            \E d \in DrawPairs :
                humanized[i][1] = Max(0, SwungAsRuled(hin[i][1]) + TimingHumanize(hctx, d[2]))

\* The humanizer has returned two events: one at seven eighths of the beat,
\* moved later by exactly the swing shift, and one on the half beat, not
\* moved at all.
C21_Witness ==
    /\ hpc = "done"
    /\ hctx.swing > 0
    /\ \E i, j \in 1..Len(hin) :
          /\ hin[i][1] = (7 * hctx.spb) \div 8
          /\ humanized[i][1] = hin[i][1] + (hctx.swing * hctx.spb) \div SwingDen
          /\ hin[j][1] = hctx.spb \div 2
          /\ humanized[j][1] = hin[j][1]

\* clamp(x, lo, hi)
Clamp(x, lo, hi) == IF x < lo THEN lo ELSE IF x > hi THEN hi ELSE x

\* C22: the energy_factor of a humanizer call is clamp(1 - (energy - 5) *
\* 0.05, 0.5, 1.0) * clamp(humanize_intensity, 0.2, 1.2); no higher energy
\* and no lower humanize_intensity gives a larger factor, nor a wider
\* timing or velocity jitter interval (range * energy_factor).
C22_EnergyFactorMonotone ==
    hpc # "call" =>
        /\ hctx.ef * 100 * IntensityDen =
               Clamp(100 - (hreq.energy_norm - 5) * 5, 50, 100)
                   * Clamp(hreq.humanize_intensity, 2, 12) * FactorDen
        /\ \A e \in hreq.energy_norm..12 :
               LET ef == EnergyFactor(e, hreq.humanize_intensity)
               IN  /\ ef <= hctx.ef
                   /\ hctx.trange * ef <= hctx.trange * hctx.ef
                   /\ hctx.vrange * ef <= hctx.vrange * hctx.ef
        /\ \A h \in 0..hreq.humanize_intensity :
               LET ef == EnergyFactor(hreq.energy_norm, h)
               IN  /\ ef <= hctx.ef
                   /\ hctx.trange * ef <= hctx.trange * hctx.ef
                   /\ hctx.vrange * ef <= hctx.vrange * hctx.ef

\* A call at energy 3 with humanize_intensity 0.6 has entered its loop: the
\* factor is 0.6, and it is smaller at energy 10 and at intensity 0.2.
C22_Witness ==
    /\ hpc = "loop"
    /\ hreq.energy_norm = 3
    /\ hreq.humanize_intensity = 6
    /\ hctx.ef * 10 = 6 * FactorDen
    /\ EnergyFactor(10, 6) < hctx.ef
    /\ EnergyFactor(3, 2) < hctx.ef

\* The genre family of a humanizer call as the rule names it.
Breakbeat(k) == Contains(k, S.drum_and_bass)

HipHop(k) == ~Breakbeat(k) /\ (Contains(k, S.hiphop) \/ Contains(k, S.boom_bap))

Mechanical(k) ==
    ~Breakbeat(k) /\ ~HipHop(k) /\ (Contains(k, S.techno) \/ Contains(k, S.industrial))

\* The timing and velocity ranges of the running call are at most those of
\* the call r.
NoLooserThan(r) ==
    /\ hctx.trange <= TimingRange(r.genre_key)
    /\ hctx.vrange <= VelRange(r.genre_key)

\* The timing and velocity ranges of the running call are at least those of
\* the call r.
NoTighterThan(r) ==
    /\ hctx.trange >= TimingRange(r.genre_key)
    /\ hctx.vrange >= VelRange(r.genre_key)

\* C23 as stated: a drum and bass key gets swing x0.5 and the tightest timing
\* and velocity ranges of all families, a hip-hop key swing x1.2 and the
\* loosest ranges, a techno or industrial key swing x0.3, and any other key
\* the swing of the caller with the default ranges 0.005 s and 0.04.
C23_AsStated ==
    hpc # "call" =>
        LET k == hreq.genre_key
        IN  /\ Breakbeat(k) =>
                   /\ hctx.swing * 10 = hreq.swing_amount * 5
                   /\ \A r \in HumanizeRequests : NoLooserThan(r)
            /\ HipHop(k) =>
                   /\ hctx.swing * 10 = hreq.swing_amount * 12
                   /\ \A r \in HumanizeRequests : NoTighterThan(r)
            /\ Mechanical(k) => hctx.swing * 10 = hreq.swing_amount * 3
            /\ (~Breakbeat(k) /\ ~HipHop(k) /\ ~Mechanical(k)) =>
                   /\ hctx.swing = hreq.swing_amount
                   /\ hctx.trange = Ms(5)
                   /\ hctx.vrange = 4

\* C23, amended: a drum and bass key gets swing x0.5 and timing and velocity
\* ranges tighter than those of every family but techno/industrial, which
\* has the tightest; a hip-hop key gets swing x1.2 and the loosest ranges, a
\* techno or industrial key swing x0.3, and any other key the swing of the
\* caller with the default ranges 0.005 s and 0.04.
C23_Amended ==
    hpc # "call" =>
        LET k == hreq.genre_key
        IN  /\ Breakbeat(k) =>
                   /\ hctx.swing * 10 = hreq.swing_amount * 5
                   /\ \A r \in HumanizeRequests :
                          IF Mechanical(r.genre_key)
                          THEN hctx.trange > TimingRange(r.genre_key)
                                   /\ hctx.vrange > VelRange(r.genre_key)
                          ELSE NoLooserThan(r)
            /\ HipHop(k) =>
                   /\ hctx.swing * 10 = hreq.swing_amount * 12
                   /\ \A r \in HumanizeRequests : NoTighterThan(r)
            /\ Mechanical(k) =>
                   /\ hctx.swing * 10 = hreq.swing_amount * 3
                   /\ \A r \in HumanizeRequests : NoLooserThan(r)
            /\ (~Breakbeat(k) /\ ~HipHop(k) /\ ~Mechanical(k)) =>
                   /\ hctx.swing = hreq.swing_amount
                   /\ hctx.trange = Ms(5)
                   /\ hctx.vrange = 4

\* A drum and bass call has returned with half the swing of its caller and
\* a timing range above that of techno.
C23_Witness ==
    /\ hpc = "done"
    /\ Breakbeat(hreq.genre_key)
    /\ hctx.swing * 2 = hreq.swing_amount
    /\ hctx.trange > TimingRange(S.techno)
    /\ Len(humanized) > 0

\* The list after is the list before with added events appended, all of
\* them at times in [0, bars * seconds_per_bar].
Extended(before, after) ==
    /\ Len(after) >= Len(before)
    /\ SubSeq(after, 1, Len(before)) = before
    /\ \A j \in (Len(before) + 1)..Len(after) :
           after[j][1] >= 0 /\ after[j][1] <= call.bars * 4 * loc.spb

\* The list after holds events of the list before only, in their order, an
\* event being 0.02 s later when its pitch is that of the event kept before
\* it and at its time otherwise.
Thinned(before, after) ==
    /\ Len(after) <= Len(before)
    /\ \A j \in 1..Len(after) :
           LET late == IF j > 1 /\ after[j][2] = after[j - 1][2] THEN Ms(20) ELSE 0
           IN  \E i \in j..Len(before) :
                   after[j] = <<before[i][1] + late, before[i][2], before[i][3],
                                before[i][4]>>

\* What the energy pass may do to the list at the energy of the call.
EnergyPass(before, after) ==
    LET added == Len(after) - Len(before)
        hits  == IF loc.energy_norm >= 8 THEN 3 * call.bars ELSE (3 * call.bars) \div 2
    IN  IF loc.energy_norm <= 3 THEN Thinned(before, after)
        ELSE IF loc.energy_norm = 4 THEN after = before
        ELSE /\ Extended(before, after)
             /\ IF loc.energy_norm <= 7 THEN added = hits
                ELSE /\ added >= hits
                     /\ added <= hits + 8 * call.bars
                     /\ \A j \in (Len(before) + hits + 1)..Len(after) :
                            /\ after[j][2] = 42
                            /\ (2 * after[j][1]) % loc.spb = 0
             /\ \A j \in (Len(before) + 1)..(Len(before) + hits) :
                    after[j][2] \in {38, 47, 48, 49, 51}

\* C24: the energy pass of generate_drum_events (energy clamped to 1..10)
\* at energy <= 3 only drops events and moves by 0.02 s an event of the
\* pitch of the kept event before it; at energy 4 leaves the list as it is;
\* at energy 5..7 appends exactly int(1.5 * bars) events; at energy >= 8
\* appends exactly int(3 * bars) ghost or percussion events and then at most
\* 8 * bars hats on the half-beat grid; every appended event has its time
\* in [0, bars * seconds_per_bar].
C24_EnergyPass ==
    [][pc = "energy" => (loc.energy_norm \in 1..10 /\ EnergyPass(events, events'))]_vars

\* A drum call of two bars at energy 9 is past its energy pass, its list
\* ending with a hat of the doubled grid; the pass has added the six hits.
C24_Witness ==
    /\ call.fn = "drums"
    /\ pc = "humanize"
    /\ loc.energy_norm = 9
    /\ call.bars = 2
    /\ Len(events) > 6
    /\ events[Len(events)] = <<15 * (loc.spb \div 2), 42, Vel(70), Ms(15)>>

\* C25 as stated: in the list generate_melody_events returns for the techno
\* family, the n-th downbeat stab (beats 0 and 2 of every bar, counted from
\* 0) has the pitch of the scale degree that the arpeggio [0, 2, 4, 2, 0]
\* holds at n mod 5, an octave above the genre root.
C25_AsStated ==
    (call.fn = "melody" /\ pc = "returned" /\ loc.family = "techno") =>
        LET arpeggio == <<0, 2, 4, 2, 0>>
            scale == SCALES(loc.scale_name)
        IN  \A n \in 0..(2 * call.bars - 1) :
                \E i \in 1..Len(ret) :
                    /\ ret[i][1] = 2 * n * loc.spb
                    /\ ret[i][4] = Frac(loc.spb, 25, 100)
                    /\ ret[i][2] = loc.root + 12 + scale[arpeggio[(n % 5) + 1] + 1]

\* C26 as stated: for energy on the scale 1..10, the techno melody at
\* energy >= 5 has an outcome of the draws with an offbeat accent after a
\* downbeat stab; the list returned for the trance family at energy >= 7
\* holds the four notes of the counter-melody in every even-numbered bar;
\* the list returned for the industrial/EBM family at energy >= 7 holds a
\* noise note within 0.05 s of every beat.
C26_AsStated ==
    (call.fn = "melody" /\ pc = "returned") =>
        /\ (loc.family = "techno" /\ call.energy >= 5) =>
               \E r \in 0..(RandDen - 1) :
                   Len(MelodyTechnoStab([ev |-> <<>>, rng |-> r], 0, LoopCtx).ev) = 2
        /\ (loc.family = "trance" /\ call.energy >= 7) =>
               \A bar \in {b \in 0..(call.bars - 1) : b % 2 = 0} :
                   \A i \in 0..3 :
                       \E j \in 1..Len(ret) :
                           /\ ret[j][1] = bar * 4 * loc.spb + i * loc.spb + loc.spb \div 4
                           /\ ret[j][3] = Vel(40)
                           /\ ret[j][4] = Frac(loc.spb, 25, 100)
        /\ (loc.family = "industrial" /\ call.energy >= 7) =>
               \A beat \in 0..(4 * call.bars - 1) :
                   \E j \in 1..Len(ret) :
                       /\ Abs(ret[j][1] - beat * loc.spb) <= Ms(50)
                       /\ ret[j][3] = Vel(40)
                       /\ ret[j][4] = Frac(loc.spb, 10, 100)

\* C27 as stated: a generator called with an energy outside 1..10 returns,
\* from the same state of the random source, the events of the call with
\* the energy clamped to min(10, max(1, energy)).
C27_AsStated ==
    ( /\ pc = "returned"
      /\ first # Unset.first
      /\ first.call.energy \notin 1..10
      /\ call = [first.call EXCEPT !.energy = Min(10, Max(1, first.call.energy))] )
    => ret = first.ret


\* C29 as stated: generate_drum_events called with swing=0.12 returns, from
\* the same state of the random source, other times than the call with
\* swing=0.0 when the pattern has an event on an off 16th position.
C29_AsStated ==
    ( /\ pc = "returned"
      /\ first # Unset.first
      /\ first.call.swing = 0
      /\ call = [first.call EXCEPT !.swing = 2 * DefaultSwing]
      /\ \E i \in 1..Len(raw) : IsOffSixteenth(raw[i][1], loc.spb) )
    => \E i \in 1..Len(ret) : ret[i][1] # first.ret[i][1]

\* C28: the events generate_bass_events appends are one note for each kick
\* time, in order and no more than 0.02 s before or 0.01 s after it,
\* followed by fill notes; fill notes exist only at energy 7
\* and above, each lies on one of the first four 16th positions of a bar of
\* the call and has the pitch of the event appended just before it, no bar
\* has more than 4 of them, and the returned list has as many events as
\* were appended (as many as kick times below energy 7).
C28_BassNotesAndFills ==
    (call.fn = "bass" /\ pc = "returned") =>
        LET n == Len(loc.kick_times)
            fills == (n + 1)..Len(raw)
            InBar(j, bar) == /\ raw[j][1] >= bar * 4 * loc.spb
                             /\ raw[j][1] < (bar + 1) * 4 * loc.spb
        IN  /\ Len(raw) >= n
            /\ Len(ret) = Len(raw)
            /\ \A i \in 1..n :
                  raw[i][1] - loc.kick_times[i] \in (-Ms(20))..Ms(10)
            /\ call.energy < 7 => Len(ret) = n
            /\ \A j \in fills :
                  /\ call.energy >= 7
                  /\ j > 1 => raw[j][2] = raw[j - 1][2]
                  /\ \E bar \in 0..(call.bars - 1), i \in 0..3 :
                        raw[j][1] = bar * 4 * loc.spb + i * Frac(loc.spb, 1, 4)
            /\ \A bar \in 0..(call.bars - 1) :
                  Cardinality({j \in fills : InBar(j, bar)}) <= 4

\* A bass call at energy 7 or above has returned with fill notes after the
\* notes of the kick times, in a bar that also has a position left unfilled.
C28_Witness ==
    /\ call.fn = "bass"
    /\ pc = "returned"
    /\ call.energy >= 7
    /\ Len(loc.kick_times) > 0
    /\ Len(raw) > Len(loc.kick_times) + 1
    /\ Len(raw) < Len(loc.kick_times) + 4 * call.bars

\* C30 as stated: within one export_midi the bass and the melody generator
\* are called with the tempo of the generator call before them, the first
\* of which is the call of the drum generator.
C30_AsStated ==
    [][ (xpc \in {"bass", "melody"} /\ pc = "idle" /\ pc' = "call")
        => call'.bpm = call.bpm ]_vars
====
